---- MODULE Spec2Model ----
(***************************************************************************)
(* Model of mopy, a Monte Carlo Tree Search engine (src/mopy): the node    *)
(* class MCTree (mctree.py), the policies (policies/*.py), the search      *)
(* loops of Mopy (mopy.py), the game Nim (impl/nim) the searches and the   *)
(* tests of the repository are run on, and the game Dvonn (impl/dvonn).    *)
(***************************************************************************)
EXTENDS Integers, Sequences, FiniteSets, TLC

\* ------------------------------------------------------------------------
\* Bounds of the model.
\* ------------------------------------------------------------------------
\* Number of trees under construction (the workers of parallel_search, the
\* roots of the merge tests).
NumTrees == 2
\* Cycles (select, simulate_game, backup_result) of one search: the
\* search_time budget.
MaxCycles == 6
\* Cycles started over all the trees that are merged afterwards: the budget
\* parallel_search splits among its workers.
MaxJobCycles == 3
\* Calls of combine_root_actions.
MaxMerges == 2
\* Cycles started over all the workers of one parallel_search.
MaxParCycles == 2
\* num_workers=4, the default of parallel_search.
num_workers == 4
\* Actions a caller chooses in one game of Dvonn.
MaxPlies == 1
\* Legal actions of the positions of Dvonn in which a caller chooses.
MaxChoices == 6

Trees == 1..NumTrees

\* The worker processes of parallel_search: for _ in range(num_workers).
Workers == 1..num_workers

\* ------------------------------------------------------------------------
\* Nim (src/mopy/impl/nim).
\* ------------------------------------------------------------------------
\* NimState(heaps, current_player)
NimState(heaps, current_player) ==
    [heaps |-> heaps, current_player |-> current_player]

\* NimAction(heap_num, num_taken); heap_num is zero-indexed as in the source.
NimAction(heap_num, num_taken) ==
    [heap_num |-> heap_num, num_taken |-> num_taken]

\* The action None of a root node (MCTree.__init__, action=None).
None == [heap_num |-> -1, num_taken |-> 0]

\* NimGame.is_over: sum(state.heaps) == 0
RECURSIVE SumSeq(_)
SumSeq(s) == IF s = <<>> THEN 0 ELSE Head(s) + SumSeq(Tail(s))

is_over(state) == SumSeq(state.heaps) = 0

\* The actions on heap i with range(1, h + 2) for range(1, h + 1).
RECURSIVE ActionsOfHeapOverdrawn(_, _, _)
ActionsOfHeapOverdrawn(i, h, n) ==
    IF n > h + 1 THEN <<>>
    ELSE <<NimAction(i, n)>> \o ActionsOfHeapOverdrawn(i, h, n + 1)

\* NimGame.get_legal_actions: for i, h in enumerate(heaps): for n in
\* range(1, h + 1): append NimAction(i, n). The list, in the order built.
RECURSIVE ActionsOfHeap(_, _, _)
ActionsOfHeap(i, h, n) ==
    IF n > h THEN <<>>
    ELSE <<NimAction(i, n)>> \o ActionsOfHeap(i, h, n + 1)

RECURSIVE ActionsFrom(_, _)
ActionsFrom(heaps, i) ==
    IF i > Len(heaps) THEN <<>>
    ELSE ActionsOfHeap(i - 1, heaps[i], 1) \o ActionsFrom(heaps, i + 1)

get_legal_actions(state) == ActionsFrom(state.heaps, 1)

\* do_action that leaves the current player as it is.
do_action_same_player(state, action) ==
    [state EXCEPT !.heaps[action.heap_num + 1] = @ - action.num_taken]

\* NimGame.do_action: state.heaps[heap_num] -= num_taken; the current player
\* becomes 1 if it was 0 and 0 otherwise.
do_action(state, action) ==
    [heaps |-> [state.heaps EXCEPT ![action.heap_num + 1] = @ - action.num_taken],
     current_player |-> IF state.current_player = 0 THEN 1 ELSE 0]

\* get_result that names the player to move.
get_result_current_player(state) ==
    IF SumSeq(state.heaps) # 0 THEN -1 ELSE state.current_player

\* NimGame.get_result: raises Exception("Game is not done yet!") when the
\* game is not over (NotDone here), else the player who is not to move.
NotDone == -1

get_result(state) ==
    IF ~is_over(state) THEN NotDone
    ELSE IF state.current_player = 0 THEN 1 ELSE 0

SeqToSet(s) == {s[i] : i \in 1..Len(s)}

\* ------------------------------------------------------------------------
\* Dvonn (src/mopy/impl/dvonn). The board is grid[x][y] for x in range(5) and
\* y in range(11); a position is the pair <<x, y>>.
\* ------------------------------------------------------------------------
\* range(5) and range(11) of Board.__init__.
GridRows == 0..4
GridCols == 0..10

\* Player.__init__: the rings of their colour each player starts with.
StartPlayerRings == 23

\* Cell.__init__(r, c): an empty cell at the axial coordinates (r, c).
Cell(r, c) ==
    [r |-> r, c |-> c, num_white_rings |-> 0, num_black_rings |-> 0,
     num_dvonn_rings |-> 0, owner |-> "EMPTY"]

\* Cell.num_rings, Cell.has_dvonn_ring, Cell.is_owned_by, Cell.is_occupied
num_rings(cell) ==
    cell.num_white_rings + cell.num_black_rings + cell.num_dvonn_rings

has_dvonn_ring(cell) == cell.num_dvonn_rings > 0

is_owned_by(cell, player_num) ==
    IF player_num = 0 THEN cell.owner = "WHITE"
    ELSE IF player_num = 1 THEN cell.owner = "BLACK"
    ELSE FALSE

is_occupied(cell) == cell.owner \in {"WHITE", "BLACK", "RED"}

\* Cell.grid_to_axial(x, y) and Cell.axial_to_grid(r, c)
grid_to_axial(x, y) == <<y - 2, x>>
axial_to_grid(r, c) == <<c, r + 2>>

\* Cell.grid_neighbour_positions(dist): the six positions at distance dist, in
\* the order of deltas.
deltas == <<<<0, -1>>, <<1, -1>>, <<1, 0>>, <<-1, 0>>, <<0, 1>>, <<-1, 1>>>>

grid_neighbour_positions(cell, dist) ==
    [k \in 1..Len(deltas) |->
        axial_to_grid(cell.r + dist * deltas[k][1],
                      cell.c + dist * deltas[k][2])]

\* The grid positions Board.__init__ takes out of play (owner NULL).
NullPositions ==
    {<<0, 0>>, <<0, 1>>, <<1, 0>>, <<3, 10>>, <<4, 9>>, <<4, 10>>}

\* Board.__init__
Board ==
    [grid |-> [x \in GridRows |-> [y \in GridCols |->
                  IF <<x, y>> \in NullPositions
                  THEN [Cell(grid_to_axial(x, y)[1], grid_to_axial(x, y)[2])
                            EXCEPT !.owner = "NULL"]
                  ELSE Cell(grid_to_axial(x, y)[1], grid_to_axial(x, y)[2])]],
     removed_white_rings |-> 0,
     removed_black_rings |-> 0]

\* Board.is_on_board(x, y)
is_on_board(x, y) == x \in GridRows /\ y \in GridCols

\* The positions among ps that are on the board and hold a ring.
OccupiedAmong(board, ps) ==
    {p \in ps : is_on_board(p[1], p[2]) /\ is_occupied(board.grid[p[1]][p[2]])}

\* Board.is_surrounded(cell): all six neighbours are on the board and occupied.
is_surrounded(board, cell) ==
    LET neighbours == grid_neighbour_positions(cell, 1)
    IN \A k \in 1..Len(neighbours) :
          neighbours[k] \in OccupiedAmong(board, {neighbours[k]})

\* The occupied cells joined to a cell of seen by a chain of adjacent occupied
\* cells: what the depth-first walks of _is_isolated_component and
\* _remove_component reach from seen.
OccupiedNeighbours(board, seen) ==
    UNION {OccupiedAmong(board,
               SeqToSet(grid_neighbour_positions(board.grid[p[1]][p[2]], 1))) :
           p \in seen}

RECURSIVE Component(_, _, _)
Component(board, seen, next) ==
    IF next \subseteq seen THEN seen
    ELSE Component(board, seen \cup next,
                   OccupiedNeighbours(board, next \ seen))

\* The sum of f[p] over the positions p of ps.
RECURSIVE SumOver(_, _)
SumOver(f, ps) ==
    IF ps = {} THEN 0
    ELSE LET p == CHOOSE q \in ps : TRUE
         IN f[p] + SumOver(f, ps \ {p})

\* The occupied positions that neither hold a Dvonn ring nor are adjacent to a
\* cell that holds one.
IsolatedPositionsNear(board) ==
    LET occupied == OccupiedAmong(board, GridRows \X GridCols)
        dvonn == {p \in occupied : has_dvonn_ring(board.grid[p[1]][p[2]])}
    IN occupied \ (dvonn \cup OccupiedNeighbours(board, dvonn))

\* The occupied positions of the board that no chain of adjacent occupied
\* cells joins to a cell with a Dvonn ring.
IsolatedPositions(board) ==
    LET occupied == OccupiedAmong(board, GridRows \X GridCols)
        dvonn == {p \in occupied : has_dvonn_ring(board.grid[p[1]][p[2]])}
    IN occupied \ Component(board, dvonn, OccupiedNeighbours(board, dvonn))

\* _remove_component that counts every ring of a removed stack for the colour
\* on top of it.
RemoveComponentsByOwner(board, removed) ==
    LET all == GridRows \X GridCols
        white == [p \in all |->
                     IF board.grid[p[1]][p[2]].owner = "WHITE"
                     THEN num_rings(board.grid[p[1]][p[2]]) ELSE 0]
        black == [p \in all |->
                     IF board.grid[p[1]][p[2]].owner = "BLACK"
                     THEN num_rings(board.grid[p[1]][p[2]]) ELSE 0]
    IN [grid |-> [x \in GridRows |-> [y \in GridCols |->
                     IF <<x, y>> \in removed
                     THEN [board.grid[x][y] EXCEPT !.owner = "EMPTY",
                                                   !.num_white_rings = 0,
                                                   !.num_black_rings = 0,
                                                   !.num_dvonn_rings = 0]
                     ELSE board.grid[x][y]]],
        removed_white_rings |->
            board.removed_white_rings + SumOver(white, removed),
        removed_black_rings |->
            board.removed_black_rings + SumOver(black, removed)]

\* _remove_component on each of the positions of removed.
RemoveComponents(board, removed) ==
    LET all == GridRows \X GridCols
        white == [p \in all |-> board.grid[p[1]][p[2]].num_white_rings]
        black == [p \in all |-> board.grid[p[1]][p[2]].num_black_rings]
    IN [grid |-> [x \in GridRows |-> [y \in GridCols |->
                     IF <<x, y>> \in removed
                     THEN [board.grid[x][y] EXCEPT !.owner = "EMPTY",
                                                   !.num_white_rings = 0,
                                                   !.num_black_rings = 0,
                                                   !.num_dvonn_rings = 0]
                     ELSE board.grid[x][y]]],
        removed_white_rings |->
            board.removed_white_rings + SumOver(white, removed),
        removed_black_rings |->
            board.removed_black_rings + SumOver(black, removed)]

\* Board.remove_isolated_rings: every component of occupied cells in which
\* _is_isolated_component finds no Dvonn ring is emptied by _remove_component,
\* its white and black rings counted as removed.
remove_isolated_rings(board) ==
    RemoveComponents(board, IsolatedPositions(board))

\* Player.__init__(player_num)
Player(player_num) ==
    [num_player_rings |-> StartPlayerRings,
     num_dvonn_rings |-> IF player_num = 1 THEN 1 ELSE 2]

\* DvonnState.__init__(current_player=0); players[n] is Player(n).
DvonnState ==
    [current_player |-> 0, legal_actions |-> <<>>, board |-> Board,
     players |-> [n \in {0, 1} |-> Player(n)]]

\* DvonnAction(type_, end, start=None); NoStart stands for start=None.
NoStart == <<-1, -1>>

DvonnAction(type_, end, start) == [type |-> type_, end |-> end, start |-> start]

\* The cells of the grid in the order of the nested loops over enumerate(grid)
\* and enumerate(row): position number i is <<i \div 11, i % 11>>.
CellAt(i) == <<i \div 11, i % 11>>
NumCells == 55

\* DvonnGame._get_legal_place_actions: a PLACE action for every EMPTY cell.
RECURSIVE PlaceActionsFrom(_, _)
PlaceActionsFrom(state, i) ==
    IF i >= NumCells THEN <<>>
    ELSE LET x == CellAt(i)[1]
             y == CellAt(i)[2]
         IN (IF state.board.grid[x][y].owner = "EMPTY"
             THEN <<DvonnAction("PLACE", <<x, y>>, NoStart)>>
             ELSE <<>>)
            \o PlaceActionsFrom(state, i + 1)

get_legal_place_actions(state) == PlaceActionsFrom(state, 0)

\* The MOVE actions of the stack on cell <<x, y>>: to each of the six cells at
\* the distance of its height that is on the board and occupied, if the
\* current player owns the stack and it is not surrounded.
MoveActionsOfCell(state, x, y) ==
    LET cell == state.board.grid[x][y]
        neighbours == grid_neighbour_positions(cell, num_rings(cell))
        Target(p) == p \in OccupiedAmong(state.board, {p})
        ends == SelectSeq(neighbours, Target)
    IN IF is_owned_by(cell, state.current_player)
          /\ ~is_surrounded(state.board, cell)
       THEN [k \in 1..Len(ends) |-> DvonnAction("MOVE", ends[k], <<x, y>>)]
       ELSE <<>>

\* DvonnGame._get_legal_move_actions
RECURSIVE MoveActionsFrom(_, _)
MoveActionsFrom(state, i) ==
    IF i >= NumCells THEN <<>>
    ELSE MoveActionsOfCell(state, CellAt(i)[1], CellAt(i)[2])
         \o MoveActionsFrom(state, i + 1)

get_legal_move_actions(state) == MoveActionsFrom(state, 0)

\* DvonnGame._calculate_legal_actions(state): the actions it returns and the
\* state as it leaves it (a player who cannot move passes: current_player is
\* assigned).
MoveOrPass(state, move_actions, passed) ==
    IF move_actions = <<>>
    THEN [actions |-> get_legal_move_actions(passed), state |-> passed]
    ELSE [actions |-> move_actions, state |-> state]

calculate_legal_actions(state) ==
    IF state.players[state.current_player].num_player_rings > 0
    THEN [actions |-> get_legal_place_actions(state), state |-> state]
    ELSE MoveOrPass(state, get_legal_move_actions(state),
                    [state EXCEPT !.current_player = (@ + 1) % 2])

\* state.legal_actions = self._calculate_legal_actions(state)
StoreLegalActions(legal) ==
    [legal.state EXCEPT !.legal_actions = legal.actions]

\* DvonnGame.new_game
dvonn_new_game == StoreLegalActions(calculate_legal_actions(DvonnState))

\* _do_place_action without its branch for Black: every ring of a player's
\* colour is placed as a white one.
do_place_action_white(state, pos) ==
    LET x == pos[1]
        y == pos[2]
        me == state.current_player
        other == (state.current_player + 1) % 2
        placed ==
            IF state.players[me].num_dvonn_rings > 0
            THEN [state EXCEPT
                     !.board.grid[x][y].num_white_rings = 0,
                     !.board.grid[x][y].num_dvonn_rings = 1,
                     !.board.grid[x][y].owner = "RED",
                     !.players[me].num_dvonn_rings = @ - 1]
            ELSE [state EXCEPT
                     !.board.grid[x][y].num_white_rings = 1,
                     !.board.grid[x][y].owner = "WHITE",
                     !.players[me].num_player_rings = @ - 1]
    IN IF placed.players[me].num_player_rings > 0
          \/ placed.players[other].num_player_rings > 0
       THEN [placed EXCEPT !.current_player = other]
       ELSE placed

\* DvonnGame._do_place_action(state, pos)
do_place_action(state, pos) ==
    LET x == pos[1]
        y == pos[2]
        me == state.current_player
        other == (state.current_player + 1) % 2
        player == state.players[me]
        placed ==
            IF player.num_dvonn_rings > 0
            THEN [state EXCEPT
                     !.board.grid[x][y].num_white_rings = 0,
                     !.board.grid[x][y].num_dvonn_rings = 1,
                     !.board.grid[x][y].owner = "RED",
                     !.players[me].num_dvonn_rings = @ - 1]
            ELSE IF me = 1
            THEN [state EXCEPT
                     !.board.grid[x][y].num_white_rings = 0,
                     !.board.grid[x][y].num_black_rings = 1,
                     !.board.grid[x][y].owner = "BLACK",
                     !.players[me].num_player_rings = @ - 1]
            ELSE [state EXCEPT
                     !.board.grid[x][y].num_white_rings = 1,
                     !.board.grid[x][y].owner = "WHITE",
                     !.players[me].num_player_rings = @ - 1]
    IN IF placed.players[me].num_player_rings > 0
          \/ placed.players[other].num_player_rings > 0
       THEN [placed EXCEPT !.current_player = other]
       ELSE placed

\* _do_move_action without end_cell.owner = start_cell.owner: the stack moved
\* onto keeps its owner.
do_move_action_keeps_owner(state, end, start) ==
    LET start_cell == state.board.grid[start[1]][start[2]]
        end_cell == state.board.grid[end[1]][end[2]]
        grown == [end_cell EXCEPT
                     !.num_white_rings = @ + start_cell.num_white_rings,
                     !.num_black_rings = @ + start_cell.num_black_rings,
                     !.num_dvonn_rings = @ + start_cell.num_dvonn_rings]
        left == [start_cell EXCEPT
                     !.num_white_rings = 0,
                     !.num_black_rings = 0,
                     !.num_dvonn_rings = 0,
                     !.owner = "EMPTY"]
        moved == [state.board EXCEPT
                     !.grid[end[1]][end[2]] = grown,
                     !.grid[start[1]][start[2]] = left]
    IN [state EXCEPT !.board = remove_isolated_rings(moved),
                     !.current_player = (@ + 1) % 2]

\* DvonnGame._do_move_action(state, end, start)
do_move_action(state, end, start) ==
    LET start_cell == state.board.grid[start[1]][start[2]]
        end_cell == state.board.grid[end[1]][end[2]]
        grown == [end_cell EXCEPT
                     !.num_white_rings = @ + start_cell.num_white_rings,
                     !.num_black_rings = @ + start_cell.num_black_rings,
                     !.num_dvonn_rings = @ + start_cell.num_dvonn_rings,
                     !.owner = start_cell.owner]
        \* start and end are the same cell object when the positions are equal
        left == [(IF start = end THEN grown ELSE start_cell) EXCEPT
                     !.num_white_rings = 0,
                     !.num_black_rings = 0,
                     !.num_dvonn_rings = 0,
                     !.owner = "EMPTY"]
        moved == [state.board EXCEPT
                     !.grid[end[1]][end[2]] = grown,
                     !.grid[start[1]][start[2]] = left]
    IN [state EXCEPT !.board = remove_isolated_rings(moved),
                     !.current_player = (@ + 1) % 2]

\* DvonnGame.do_action(state, action): the action, then the legal actions of
\* the new position are stored in the state.
dvonn_do_action(state, action) ==
    StoreLegalActions(calculate_legal_actions(
        IF action.type = "PLACE" THEN do_place_action(state, action.end)
        ELSE IF action.type = "MOVE"
        THEN do_move_action(state, action.end, action.start)
        ELSE state))

\* DvonnGame.is_over: len(state.legal_actions) == 0
dvonn_is_over(state) == Len(state.legal_actions) = 0

\* DvonnGame._get_total_rings: <<white_rings, black_rings>>, the rings of the
\* stacks each player owns.
get_total_rings(state) ==
    LET all == GridRows \X GridCols
        rings(owner) ==
            [p \in all |-> IF state.board.grid[p[1]][p[2]].owner = owner
                           THEN num_rings(state.board.grid[p[1]][p[2]])
                           ELSE 0]
    IN <<SumOver(rings("WHITE"), all), SumOver(rings("BLACK"), all)>>

\* get_result without the test of is_over.
dvonn_get_result_unchecked(state) ==
    IF get_total_rings(state)[1] > get_total_rings(state)[2] THEN 0 ELSE 1

\* DvonnGame.get_result: raises Exception("Game is not done yet!") when the
\* game is not over (NotDone here), else 0 if White owns more rings, else 1.
dvonn_get_result(state) ==
    IF ~dvonn_is_over(state) THEN NotDone
    ELSE IF get_total_rings(state)[1] > get_total_rings(state)[2] THEN 0
    ELSE 1

\* DvonnGame.get_legal_actions: the list the state carries.
dvonn_get_legal_actions(state) == state.legal_actions

\* ------------------------------------------------------------------------
\* MCTree (src/mopy/mctree.py). A tree is the sequence of its nodes in the
\* order they were constructed; node 1 is the root a search starts from, and a
\* node names its parent and its children by their positions in the sequence
\* (0 stands for parent=None).
\* ------------------------------------------------------------------------
NoParent == 0
Root == 1

\* The state object the caller hands to search; deepcopy yields a new object.
\* sid tells objects apart: CallerState for the caller's, the position of the
\* node that owns the copy for a deepcopy.
CallerState == 0

\* MCTree.__init__(game, state, action=None, parent=None)
MCTree(state, sid, action, parent) ==
    [state |-> state, sid |-> sid, action |-> action, parent |-> parent,
     children |-> <<>>, won_games |-> 0, total_games |-> 0]

\* win_ratio without the test of total_games == 0.
win_ratio_unguarded(node) == <<node.won_games, node.total_games>>

\* MCTree.win_ratio: 0 if total_games == 0, else won_games / total_games; kept
\* as the fraction <<numerator, denominator>>.
win_ratio(node) ==
    IF node.total_games = 0 THEN <<0, 1>>
    ELSE <<node.won_games, node.total_games>>

\* r1 < r2 for two win ratios (denominators are positive).
RatioLess(r1, r2) == r1[1] * r2[2] < r2[1] * r1[2]

\* max that keeps the last of several maximal elements (>= for >).
RECURSIVE MaxByWinRatioLast(_, _, _, _)
MaxByWinRatioLast(nodes, ids, i, best) ==
    IF i > Len(ids) THEN best
    ELSE IF ~RatioLess(win_ratio(nodes[ids[i]]), win_ratio(nodes[best]))
         THEN MaxByWinRatioLast(nodes, ids, i + 1, ids[i])
         ELSE MaxByWinRatioLast(nodes, ids, i + 1, best)

\* max(ids, key=win_ratio) of Python for a non-empty list: the first element
\* whose key no other element exceeds. best is the maximum so far.
RECURSIVE MaxByWinRatio(_, _, _, _)
MaxByWinRatio(nodes, ids, i, best) ==
    IF i > Len(ids) THEN best
    ELSE IF RatioLess(win_ratio(nodes[best]), win_ratio(nodes[ids[i]]))
         THEN MaxByWinRatio(nodes, ids, i + 1, ids[i])
         ELSE MaxByWinRatio(nodes, ids, i + 1, best)

\* What a call returned or raised.
Returned(action) == [kind |-> "return", action |-> action]
Raised(error) == [kind |-> error, action |-> None]

\* get_best_action that returns None for a node without children.
get_best_action_none(nodes, n) ==
    IF nodes[n].children = <<>> THEN Returned(None)
    ELSE Returned(nodes[MaxByWinRatio(nodes, nodes[n].children, 2,
                                      nodes[n].children[1])].action)

\* MCTree.get_best_action on node n: max() of an empty list raises ValueError.
get_best_action(nodes, n) ==
    IF nodes[n].children = <<>> THEN Raised("ValueError")
    ELSE Returned(nodes[MaxByWinRatio(nodes, nodes[n].children, 2,
                                      nodes[n].children[1])].action)

\* win_loss_ratio with the two counters swapped: every game counts as won, and
\* only the games of the node's player as played.
win_loss_ratio_swapped(node, winner) ==
    [node EXCEPT !.won_games = @ + 1,
                 !.total_games = IF node.state.current_player = winner
                                 THEN @ + 1 ELSE @]

\* win_loss_ratio counting the games the node's player lost as won.
win_loss_ratio_inverted(node, winner) ==
    [node EXCEPT !.total_games = @ + 1,
                 !.won_games = IF node.state.current_player # winner
                               THEN @ + 1 ELSE @]

\* backup.win_loss_ratio(node, winner)
win_loss_ratio(node, winner) ==
    [node EXCEPT !.total_games = @ + 1,
                 !.won_games = IF node.state.current_player = winner
                               THEN @ + 1 ELSE @]

\* backup_result that stops below the root (while root.parent: ...).
RECURSIVE backup_result_below_root(_, _, _)
backup_result_below_root(nodes, n, result) ==
    IF n = NoParent \/ nodes[n].parent = NoParent THEN nodes
    ELSE backup_result_below_root(
             [nodes EXCEPT ![n] = win_loss_ratio(nodes[n], result)],
             nodes[n].parent, result)

\* backup_result that applies the policy to node n alone (no walk up the
\* parents).
backup_result_node_only(nodes, n, result) ==
    IF n = NoParent THEN nodes
    ELSE [nodes EXCEPT ![n] = win_loss_ratio(nodes[n], result)]

\* backup_result that goes from node n to the parent of its parent
\* (root = root.parent.parent).
RECURSIVE backup_result_skip_parent(_, _, _)
backup_result_skip_parent(nodes, n, result) ==
    IF n = NoParent THEN nodes
    ELSE backup_result_skip_parent(
             [nodes EXCEPT ![n] = win_loss_ratio(nodes[n], result)],
             IF nodes[n].parent = NoParent THEN NoParent
             ELSE nodes[nodes[n].parent].parent, result)

\* MCTree.backup_result from node n: apply the policy to n, then to its parent,
\* until a node has no parent.
RECURSIVE backup_result(_, _, _)
backup_result(nodes, n, result) ==
    IF n = NoParent THEN nodes
    ELSE backup_result([nodes EXCEPT ![n] = win_loss_ratio(nodes[n], result)],
                       nodes[n].parent, result)

\* A simulation policy that can also take a stone from heap 0 when it is
\* empty.
random_action_unchecked(state) ==
    SeqToSet(get_legal_actions(state)) \cup {NimAction(0, 1)}

\* simulation.random_action(game, state): what choice(all_actions) can return.
random_action(state) == SeqToSet(get_legal_actions(state))

\* simulate_game whose loop ends after one action of the simulation policy.
simulate_game_one_action(state) ==
    IF is_over(state) THEN {get_result(state)}
    ELSE {get_result(do_action(state, a)) : a \in random_action(state)}

\* MCTree.simulate_game from a state: the results the playout can end with,
\* over the actions simulation.random_action can draw from the legal ones.
RECURSIVE simulate_game(_)
simulate_game(state) ==
    IF is_over(state) THEN {get_result(state)}
    ELSE UNION {simulate_game(do_action(state, a)) :
                    a \in random_action(state)}

\* The sequences of actions the loop of simulate_game can do on its copy of
\* the state, one action of the simulation policy after the other until the
\* game is over.
RECURSIVE playouts(_)
playouts(state) ==
    IF is_over(state) THEN {<<>>}
    ELSE UNION {{<<a>> \o rest : rest \in playouts(do_action(state, a))} :
                    a \in random_action(state)}

\* ------------------------------------------------------------------------
\* Selection policies (src/mopy/policies/selection.py). A policy call yields
\* [kind |-> "return", node |-> the child chosen] or [kind |-> the error
\* raised, node |-> 0].
\* ------------------------------------------------------------------------
Chosen(n) == [kind |-> "return", node |-> n]
Failed(error) == [kind |-> error, node |-> 0]

\* math.log of 1..16 in units of 10^-6 (rounded).
LnMicro == <<0, 693147, 1098612, 1386294, 1609438, 1791759, 1945910, 2079442,
             2197225, 2302585, 2397895, 2484907, 2564949, 2639057, 2708050,
             2772589>>

\* math.sqrt on naturals, rounded down: the r in lo..hi with r*r <= x < (r+1)^2.
RECURSIVE SqrtBetween(_, _, _)
SqrtBetween(x, lo, hi) ==
    IF lo >= hi THEN lo
    ELSE LET mid == (lo + hi + 1) \div 2
         IN IF mid * mid <= x THEN SqrtBetween(x, mid, hi)
            ELSE SqrtBetween(x, lo, mid - 1)

\* selection._get_UCT_val(node, explore_rate) with explore_rate = 0.2, in units
\* of 10^-4: win_ratio + 2*C*sqrt((2*log(par_visits)) / node_visits). Called
\* with par_visits in 1..16 and node_visits >= 1 (UCT below raises otherwise).
UCTval(won, node_visits, par_visits) ==
    (won * 10000) \div node_visits
    + (4 * SqrtBetween(((2 * LnMicro[par_visits]) \div node_visits) * 100,
                       0, 30000)) \div 10

\* scores.index(max(scores)): the first child with the maximal score.
RECURSIVE FirstMaxScore(_, _, _, _)
FirstMaxScore(nodes, ids, i, best) ==
    IF i > Len(ids) THEN best
    ELSE LET sb == UCTval(nodes[best].won_games, nodes[best].total_games,
                          nodes[nodes[best].parent].total_games)
             si == UCTval(nodes[ids[i]].won_games, nodes[ids[i]].total_games,
                          nodes[nodes[ids[i]].parent].total_games)
         IN IF sb < si THEN FirstMaxScore(nodes, ids, i + 1, ids[i])
            ELSE FirstMaxScore(nodes, ids, i + 1, best)

\* selection.UCT(node): node.parent of a child without parent is None
\* (AttributeError), log(0) is a ValueError, a child never visited divides by
\* zero, and max() of no scores is a ValueError.
UCT(nodes, n) ==
    LET ids == nodes[n].children
    IN IF \E i \in 1..Len(ids) : nodes[ids[i]].parent = NoParent
       THEN {Failed("AttributeError")}
       ELSE IF \E i \in 1..Len(ids) :
                   nodes[nodes[ids[i]].parent].total_games = 0
       THEN {Failed("ValueError")}
       ELSE IF \E i \in 1..Len(ids) : nodes[ids[i]].total_games = 0
       THEN {Failed("ZeroDivisionError")}
       ELSE IF ids = <<>> THEN {Failed("ValueError")}
       ELSE {Chosen(FirstMaxScore(nodes, ids, 2, ids[1]))}

\* selection.epsilon_greedy(node) with explore_rate = exploit_rate = 0.2:
\* eps = min(1, (0.2*num_actions) / (0.2**2 * node_visits)), that is
\* min(1, 5*num_actions/node_visits); random() < eps returns any child,
\* otherwise the child of maximal win ratio is returned.
epsilon_greedy(nodes, n) ==
    LET ids == nodes[n].children
        node_visits == nodes[n].total_games
        num_actions == Len(ids)
    IN IF node_visits = 0 THEN {Failed("ZeroDivisionError")}
       ELSE IF ids = <<>> THEN {Failed("ValueError")}
       ELSE {Chosen(ids[i]) : i \in 1..Len(ids)}
            \cup (IF 5 * num_actions < node_visits
                  THEN {Chosen(MaxByWinRatio(nodes, ids, 2, ids[1]))}
                  ELSE {})

\* The policy Mopy was constructed with (Mopy.__init__, sel_policy).
SelPolicies == {"UCT", "epsilon_greedy"}

ApplySelPolicy(policy, nodes, n) ==
    IF policy = "UCT" THEN UCT(nodes, n) ELSE epsilon_greedy(nodes, n)

\* ------------------------------------------------------------------------
\* MCTree.select and MCTree._expand.
\* ------------------------------------------------------------------------
\* select without the test of is_over: a node with as many children as legal
\* actions is handed to the policy whether or not its game is over.
RECURSIVE select_past_end(_, _, _)
select_past_end(policy, nodes, n) ==
    IF Len(nodes[n].children) < Len(get_legal_actions(nodes[n].state))
    THEN {[kind |-> "expand", node |-> n]}
    ELSE UNION {IF o.kind = "return"
                THEN select_past_end(policy, nodes, o.node)
                ELSE {o} : o \in ApplySelPolicy(policy, nodes, n)}

\* The descent of select from node n: where it can end. "expand": at a node
\* with fewer children than legal actions; "return": at a node whose game is
\* over; or the error the policy raised.
RECURSIVE select(_, _, _)
select(policy, nodes, n) ==
    IF is_over(nodes[n].state) THEN {Chosen(n)}
    ELSE IF Len(nodes[n].children) < Len(get_legal_actions(nodes[n].state))
         THEN {[kind |-> "expand", node |-> n]}
         ELSE UNION {IF o.kind = "return" THEN select(policy, nodes, o.node)
                     ELSE {o} : o \in ApplySelPolicy(policy, nodes, n)}

\* new_actions without the filter on the actions the children carry.
new_actions_unfiltered(nodes, n) ==
    SeqToSet(get_legal_actions(nodes[n].state))

\* new_actions of _expand: the legal actions no child carries.
new_actions(nodes, n) ==
    {a \in SeqToSet(get_legal_actions(nodes[n].state)) :
        \A i \in 1..Len(nodes[n].children) :
            nodes[nodes[n].children[i]].action # a}

\* _expand that builds the new node and does not append it to n's children.
expand_detached(nodes, n, next_action) ==
    Append(nodes, MCTree(do_action(nodes[n].state, next_action),
                         Len(nodes) + 1, next_action, n))

\* _expand with a shallow copy in place of the deepcopy: the heaps list is
\* shared with the state of node n, current_player is not.
expand_shallow_copy(nodes, n, next_action) ==
    LET new == Len(nodes) + 1
        next_state == do_action(nodes[n].state, next_action)
    IN Append([nodes EXCEPT ![n].children = Append(@, new),
                            ![n].state.heaps = next_state.heaps],
              MCTree(next_state, new, next_action, n))

\* _expand that builds the new node on the copy of the state without doing
\* the action on it.
expand_same_state(nodes, n, next_action) ==
    LET new == Len(nodes) + 1
    IN Append([nodes EXCEPT ![n].children = Append(@, new)],
              MCTree(nodes[n].state, new, next_action, n))

\* _expand without the deepcopy: the action is done on the state of node n
\* itself, which the new node then shares.
expand_in_place(nodes, n, next_action) ==
    LET new == Len(nodes) + 1
        next_state == do_action(nodes[n].state, next_action)
    IN Append([nodes EXCEPT ![n].children = Append(@, new),
                            ![n].state = next_state],
              MCTree(next_state, nodes[n].sid, next_action, n))

\* _expand that builds and appends the new child twice.
expand_twice(nodes, n, next_action) ==
    LET new == Len(nodes) + 1
        next_state == do_action(nodes[n].state, next_action)
    IN [nodes EXCEPT ![n].children = @ \o <<new, new + 1>>]
       \o <<MCTree(next_state, new, next_action, n),
            MCTree(next_state, new + 1, next_action, n)>>

\* MCTree._expand at node n with next_action drawn by choice(new_actions): the
\* new node is built on a deepcopy of the state with the action done on it, and
\* is appended to n's children.
expand(nodes, n, next_action) ==
    LET new == Len(nodes) + 1
        next_state == do_action(nodes[n].state, next_action)
    IN Append([nodes EXCEPT ![n].children = Append(@, new)],
              MCTree(next_state, new, next_action, n))

\* ------------------------------------------------------------------------
\* MCTree.combine_root_actions.
\* ------------------------------------------------------------------------
\* Sum of a counter ("won_games" or "total_games") over the nodes ids of a
\* tree that carry action a: what the loops add into the defaultdict entry.
RECURSIVE CountSum(_, _, _, _)
CountSum(nodes, ids, a, won) ==
    IF ids = <<>> THEN 0
    ELSE (IF nodes[Head(ids)].action = a
          THEN (IF won THEN nodes[Head(ids)].won_games
                ELSE nodes[Head(ids)].total_games)
          ELSE 0)
         + CountSum(nodes, Tail(ids), a, won)

\* The children of other whose action is not in original_actions, in order.
RECURSIVE NotOriginal(_, _, _)
NotOriginal(other, ids, original_actions) ==
    IF ids = <<>> THEN <<>>
    ELSE (IF other[Head(ids)].action \in original_actions THEN <<>>
          ELSE <<Head(ids)>>)
         \o NotOriginal(other, Tail(ids), original_actions)

\* The nodes the last loop of combine_root_actions assigns counters to
\* (for c in self.children), were it to walk the whole tree.
MergedNodesAllDepths(grown) == (1..Len(grown)) \ {Root}

\* The nodes the last loop of combine_root_actions assigns counters to:
\* for c in self.children, the direct children of self after the appends.
MergedNodes(grown) == SeqToSet(grown[Root].children)

\* The body of combine_root_actions when the actions can be dictionary keys:
\* self with MCTree(self.game, self.state, c.action) appended for every child c
\* of other whose action self's children did not carry, and the counters of
\* all of self's children set from the two maps.
CombinedNodes(self, other) ==
    LET sc == self[Root].children
        oc == other[Root].children
        original_actions == {self[sc[i]].action : i \in 1..Len(sc)}
        added == NotOriginal(other, oc, original_actions)
        first == Len(self)
        appended == [k \in 1..Len(added) |->
                        MCTree(self[Root].state, self[Root].sid,
                               other[added[k]].action, NoParent)]
        grown == [(self \o appended) EXCEPT ![Root].children =
                        sc \o [k \in 1..Len(added) |-> first + k]]
        kids == MergedNodes(grown)
        won_count_map(a) == CountSum(self, sc, a, TRUE)
                            + CountSum(other, oc, a, TRUE)
        total_count_map(a) == CountSum(self, sc, a, FALSE)
                              + CountSum(other, oc, a, FALSE)
    IN [i \in 1..Len(grown) |->
            IF i \in kids
            THEN [grown[i] EXCEPT !.won_games = won_count_map(grown[i].action),
                                  !.total_games =
                                      total_count_map(grown[i].action)]
            ELSE grown[i]]

\* self.combine_root_actions(other). An action is a key of won_count_map and a
\* member of original_actions: with an action class that defines __eq__ and
\* no __hash__ (NimAction, DvonnAction) the first such use raises TypeError,
\* before self is changed. [kind, nodes]: how the call ended and self after it.
combine_root_actions(hashable, self, other) ==
    IF ~hashable /\ (self[Root].children # <<>> \/ other[Root].children # <<>>)
    THEN [kind |-> "TypeError", nodes |-> self]
    ELSE [kind |-> "return", nodes |-> CombinedNodes(self, other)]

\* ------------------------------------------------------------------------
\* The searches (src/mopy/mopy.py): Mopy.search and Mopy._search_job run the
\* same loop on a root of their own; the trees are then read by
\* get_best_action and merged by combine_root_actions.
\* ------------------------------------------------------------------------
\* The positions a search is started from: the caller's state.
StartStates ==
    {NimState(h, p) : h \in {<<2, 1>>, <<0, 1>>, <<0, 0>>}, p \in {0, 1}}

\* The positions the trees that are merged are grown from.
MergeStartStates == {NimState(<<2, 1>>, 0), NimState(<<0, 2>>, 0)}

VARIABLES
    hashable,       \* the action class defines __hash__ along with __eq__
    sel_policy,     \* Mopy.sel_policy
    tree,           \* tree[t]: the nodes of the tree of root t
    pc,             \* pc[t]: where the loop on tree t stands
    selected_node,  \* selected_node[t]: the node select returned
    result,         \* result[t]: what simulate_game returned
    cycles,         \* cycles started so far, over all the trees
    merges,         \* calls of combine_root_actions so far
    last,           \* the last call made on finished trees and how it ended
    root_list,      \* parallel_search: the roots its workers have appended
    game,           \* the game a caller plays without a search, if any
    position,       \* the state object of that game
    plies,          \* the actions its caller chose and did on it
    call,           \* the last call of the game on it and how it ended
    raised          \* the games whose get_result has raised so far

\* The variables of the searches and those of a game played without one.
searchvars == <<hashable, sel_policy, tree, pc, selected_node, result, cycles,
                merges, last, root_list>>
gamevars == <<game, position, plies, call, raised>>

vars == <<searchvars, gamevars>>

\* No call of a game yet.
NoGameCall == [op |-> "none", kind |-> "none", value |-> NotDone,
               action |-> None, mover |-> NotDone]

\* No game is played outside the searches.
NoGame ==
    /\ game = "none"
    /\ position = <<>>
    /\ plies = 0
    /\ call = NoGameCall
    /\ raised = {}

\* No call on a finished tree yet, or a step of a search loop since.
NoCall == [op |-> "none", self |-> 0, other |-> 0,
           kind |-> "none", action |-> None]

\* root = MCTree(game, state) on entry of search and _search_job: the root
\* holds the caller's state object itself.
InitFrom(roots, states, policies, hashables) ==
    /\ hashable \in hashables
    /\ sel_policy \in policies
    /\ \E s \in states :
          tree = [t \in roots |-> <<MCTree(s, CallerState, None, NoParent)>>]
    /\ pc = [t \in roots |-> "idle"]
    /\ selected_node = [t \in roots |-> 0]
    /\ result = [t \in roots |-> NotDone]
    /\ cycles = 0
    /\ merges = 0
    /\ last = NoCall
    /\ root_list = <<>>
    /\ NoGame

\* selected_node = root.select(self.sel_policy), entered when the clock test
\* of the loop passed (budget: the cycles search_time leaves time for). An
\* exception ends the search.
Select(t, budget) ==
    /\ pc[t] = "idle"
    /\ cycles < budget
    /\ cycles' = cycles + 1
    /\ \E o \in select(sel_policy, tree[t], Root) :
          IF o.kind = "return"
          THEN /\ selected_node' = [selected_node EXCEPT ![t] = o.node]
               /\ pc' = [pc EXCEPT ![t] = "selected"]
               /\ tree' = tree
          ELSE IF o.kind = "expand" /\ new_actions(tree[t], o.node) # {}
          THEN \E a \in new_actions(tree[t], o.node) :
                  /\ tree' = [tree EXCEPT ![t] = expand(@, o.node, a)]
                  /\ selected_node' =
                         [selected_node EXCEPT ![t] = Len(tree[t]) + 1]
                  /\ pc' = [pc EXCEPT ![t] = "selected"]
          ELSE /\ pc' = [pc EXCEPT ![t] = "failed"]
               /\ UNCHANGED <<tree, selected_node>>
    /\ last' = NoCall
    /\ UNCHANGED <<hashable, sel_policy, result, merges, root_list,
                   gamevars>>

\* result = selected_node.simulate_game(self.sim_policy)
Simulate(t) ==
    /\ pc[t] = "selected"
    /\ \E r \in simulate_game(tree[t][selected_node[t]].state) :
          result' = [result EXCEPT ![t] = r]
    /\ pc' = [pc EXCEPT ![t] = "simulated"]
    /\ last' = NoCall
    /\ UNCHANGED <<hashable, sel_policy, tree, selected_node, cycles, merges,
                   root_list,
                   gamevars>>

\* A backup whose root counter is shared by the trees of all the loops.
BackupSharedRoot(t) ==
    /\ pc[t] = "simulated"
    /\ tree' = [v \in DOMAIN tree |->
                    IF v = t THEN backup_result(tree[t], selected_node[t],
                                                result[t])
                    ELSE IF tree[v] = <<>> THEN tree[v]
                    ELSE [tree[v] EXCEPT ![Root].total_games = @ + 1]]
    /\ pc' = [pc EXCEPT ![t] = "idle"]
    /\ selected_node' = [selected_node EXCEPT ![t] = 0]
    /\ result' = [result EXCEPT ![t] = NotDone]
    /\ last' = NoCall
    /\ UNCHANGED <<hashable, sel_policy, cycles, merges, root_list,
                   gamevars>>

\* selected_node.backup_result(result, self.backup_policy); the loop then
\* tests the clock again and the two locals are dead.
Backup(t) ==
    /\ pc[t] = "simulated"
    /\ tree' = [tree EXCEPT ![t] =
                    backup_result(@, selected_node[t], result[t])]
    /\ pc' = [pc EXCEPT ![t] = "idle"]
    /\ selected_node' = [selected_node EXCEPT ![t] = 0]
    /\ result' = [result EXCEPT ![t] = NotDone]
    /\ last' = NoCall
    /\ UNCHANGED <<hashable, sel_policy, cycles, merges, root_list,
                   gamevars>>

\* A loop that tests the clock after every statement of its body.
FinishMidCycle(t) ==
    /\ pc[t] \in {"idle", "selected", "simulated"}
    /\ pc' = [pc EXCEPT ![t] = "done"]
    /\ last' = NoCall
    /\ UNCHANGED <<hashable, sel_policy, tree, selected_node, result, cycles,
                   merges, root_list,
                   gamevars>>

\* (clock() - start_time) < search_time is false: the loop is left.
Finish(t) ==
    /\ pc[t] = "idle"
    /\ pc' = [pc EXCEPT ![t] = "done"]
    /\ last' = NoCall
    /\ UNCHANGED <<hashable, sel_policy, tree, selected_node, result, cycles,
                   merges, root_list,
                   gamevars>>

\* root.get_best_action() on the tree of a finished loop.
GetBestAction(t) ==
    /\ pc[t] = "done"
    /\ LET r == get_best_action(tree[t], Root)
       IN last' = [op |-> "get_best_action", self |-> t, other |-> 0,
                   kind |-> r.kind, action |-> r.action]
    /\ UNCHANGED <<hashable, sel_policy, tree, pc, selected_node, result,
                   cycles, merges, root_list,
                   gamevars>>

\* tree i .combine_root_actions(tree j), once every loop is finished: the
\* merges of parallel_search come after it joined all its workers, and the
\* tests merge trees no search is running on.
Combine(i, j) ==
    /\ i # j
    /\ \A t \in Trees : pc[t] \in {"done", "failed"}
    /\ merges < MaxMerges
    /\ merges' = merges + 1
    /\ LET r == combine_root_actions(hashable, tree[i], tree[j])
       IN /\ tree' = [tree EXCEPT ![i] = r.nodes]
          /\ last' = [op |-> "combine_root_actions", self |-> i, other |-> j,
                      kind |-> r.kind, action |-> None]
    /\ UNCHANGED <<hashable, sel_policy, pc, selected_node, result, cycles,
                   root_list,
                   gamevars>>

\* Mopy.search(game, state, search_time): one tree, grown and then read. The
\* searches of the repository run on NimAction and DvonnAction.
SearchTree == 1

Init == InitFrom(Trees, StartStates, SelPolicies, {FALSE})

Next ==
    \/ Select(SearchTree, MaxCycles)
    \/ Simulate(SearchTree)
    \/ Backup(SearchTree)
    \/ Finish(SearchTree)
    \/ GetBestAction(SearchTree)

Spec == Init /\ [][Next]_vars

\* Trees grown side by side by the search loop with the default policies, and
\* merged and read once all the loops are finished.
InitMerge == InitFrom(Trees, MergeStartStates, {"UCT"}, BOOLEAN)

NextMerge ==
    \/ \E t \in Trees : Select(t, MaxJobCycles)
    \/ \E t \in Trees : Simulate(t)
    \/ \E t \in Trees : Backup(t)
    \/ \E t \in Trees : Finish(t)
    \/ \E t \in Trees : GetBestAction(t)
    \/ \E i, j \in Trees : Combine(i, j)

SpecMerge == InitMerge /\ [][NextMerge]_vars

\* ------------------------------------------------------------------------
\* Mopy.parallel_search (src/mopy/mopy.py): num_workers processes run
\* _search_job, each on a root of its own, and append the root to root_list;
\* the caller joins them, merges root_list into its first element and reads
\* the best action.
\* ------------------------------------------------------------------------
\* The positions parallel_search is called on.
ParStartStates ==
    {NimState(<<0, 1>>, 0), NimState(<<0, 2>>, 0), NimState(<<1, 1>>, 0)}

\* root_list.append(root), the last statement of _search_job.
Deliver(w) ==
    /\ pc[w] = "done"
    /\ pc' = [pc EXCEPT ![w] = "delivered"]
    /\ root_list' = Append(root_list, w)
    /\ UNCHANGED <<hashable, sel_policy, tree, selected_node, result, cycles,
                   merges, last,
                   gamevars>>

\* The tree of a process that is no more.
NoTree == <<>>

\* A worker process ends before its root_list.append (an exception of the
\* game or a policy, a signal): its root and its locals go with it, p.join()
\* returns for it all the same, and no exit code is read.
WorkerFails(w) ==
    /\ pc[w] \in {"idle", "selected", "simulated", "done"}
    /\ pc' = [pc EXCEPT ![w] = "failed"]
    /\ tree' = [tree EXCEPT ![w] = NoTree]
    /\ selected_node' = [selected_node EXCEPT ![w] = 0]
    /\ result' = [result EXCEPT ![w] = NotDone]
    /\ UNCHANGED <<hashable, sel_policy, cycles, merges, last, root_list,
                   gamevars>>

\* for i in range(1, len(root_list)):
\*     first_root.combine_root_actions(root_list[i])
\* from the i-th root on; acc is [kind, nodes, calls]: how the merges ended so
\* far, first_root, and the calls made. An exception ends the loop.
RECURSIVE merge_root_list(_, _, _, _)
merge_root_list(h, acc, roots, i) ==
    IF acc.kind # "return" \/ i > Len(roots) THEN acc
    ELSE LET r == combine_root_actions(h, acc.nodes, roots[i])
         IN merge_root_list(h, [kind |-> r.kind, nodes |-> r.nodes,
                                calls |-> acc.calls + 1], roots, i + 1)

\* parallel_search once every p.join() has returned: first_root =
\* root_list[0] (IndexError on an empty list), the merges, and
\* first_root.get_best_action(). [kind, action, nodes, calls]
collect_roots(h, roots) ==
    IF roots = <<>>
    THEN [kind |-> "IndexError", action |-> None, nodes |-> <<>>, calls |-> 0]
    ELSE LET m == merge_root_list(h, [kind |-> "return", nodes |-> roots[1],
                                      calls |-> 0], roots, 2)
             b == get_best_action(m.nodes, Root)
         IN IF m.kind # "return"
            THEN [kind |-> m.kind, action |-> None, nodes |-> m.nodes,
                  calls |-> m.calls]
            ELSE [kind |-> b.kind, action |-> b.action, nodes |-> m.nodes,
                  calls |-> m.calls]

\* parallel_search without its joins: the caller merges and reads root_list
\* as soon as one root is in it.
JoinAndMergeEarly ==
    /\ root_list # <<>>
    /\ last = NoCall
    /\ LET r == collect_roots(hashable,
                              [k \in 1..Len(root_list) |-> tree[root_list[k]]])
       IN /\ last' = [op |-> "parallel_search", self |-> root_list[1],
                      other |-> 0, kind |-> r.kind, action |-> r.action]
          /\ tree' = [tree EXCEPT ![root_list[1]] = r.nodes]
          /\ merges' = merges + r.calls
    /\ UNCHANGED <<hashable, sel_policy, pc, selected_node, result, cycles,
                   root_list,
                   gamevars>>

\* The caller of parallel_search after the joins: every worker process has
\* ended, with or without its append.
JoinAndMerge ==
    /\ \A w \in Workers : pc[w] \in {"delivered", "failed"}
    /\ last = NoCall
    /\ LET r == collect_roots(hashable,
                              [k \in 1..Len(root_list) |-> tree[root_list[k]]])
       IN /\ last' = [op |-> "parallel_search",
                      self |-> IF root_list = <<>> THEN 0 ELSE root_list[1],
                      other |-> 0, kind |-> r.kind, action |-> r.action]
          /\ tree' = IF root_list = <<>> THEN tree
                     ELSE [tree EXCEPT ![root_list[1]] = r.nodes]
          /\ merges' = merges + r.calls
    /\ UNCHANGED <<hashable, sel_policy, pc, selected_node, result, cycles,
                   root_list,
                   gamevars>>

InitPar == InitFrom(Workers, ParStartStates, {"UCT"}, BOOLEAN)

NextPar ==
    \/ \E w \in Workers : Select(w, MaxParCycles)
    \/ \E w \in Workers : Simulate(w)
    \/ \E w \in Workers : Backup(w)
    \/ \E w \in Workers : Finish(w)
    \/ \E w \in Workers : Deliver(w)
    \/ \E w \in Workers : WorkerFails(w)
    \/ JoinAndMerge

SpecPar == InitPar /\ [][NextPar]_vars

\* ------------------------------------------------------------------------
\* The games played through their own interface (src/mopy/impl, as the tests
\* of src/tests do): a game of Nim from NimGame.new_game, then a game of
\* Dvonn, with get_result called at any point.
\* ------------------------------------------------------------------------
\* NimGame.new_game
new_game == NimState(<<3, 4, 5>>, 0)

\* The state a game of Dvonn is in once the players have placed every ring,
\* each on the first cell get_legal_actions lists.
RECURSIVE placed_out(_)
placed_out(state) ==
    IF state.legal_actions # <<>> /\ state.legal_actions[1].type = "PLACE"
    THEN placed_out(dvonn_do_action(state, state.legal_actions[1]))
    ELSE state

\* The states a game of Dvonn is taken up from: a new game, and the start of
\* the movement phase.
DvonnStartStates == {dvonn_new_game, placed_out(dvonn_new_game)}

\* No player has placed a ring of their own colour yet.
in_opening(state) ==
    \A n \in {0, 1} : state.players[n].num_player_rings = StartPlayerRings

\* How a call of get_result that gave r ended.
ResultKind(r) == IF r = NotDone THEN "Exception" ELSE "return"

\* No search is under way.
NoSearch ==
    /\ hashable = FALSE
    /\ sel_policy = "UCT"
    /\ tree = <<>>
    /\ pc = <<>>
    /\ selected_node = <<>>
    /\ result = <<>>
    /\ cycles = 0
    /\ merges = 0
    /\ last = NoCall
    /\ root_list = <<>>

\* game.do_action(state, a) for an action a of game.get_legal_actions(state)
NimDoAction ==
    /\ game = "NimGame"
    /\ \E a \in SeqToSet(get_legal_actions(position)) :
          /\ position' = do_action(position, a)
          /\ call' = [op |-> "do_action", kind |-> "return", value |-> NotDone,
                      action |-> a, mover |-> position.current_player]
    /\ plies' = plies + 1
    /\ UNCHANGED <<searchvars, game, raised>>

\* game.get_result(state)
NimGetResult ==
    /\ game = "NimGame"
    /\ call.op # "get_result"
    /\ call' = [call EXCEPT !.op = "get_result",
                            !.kind = ResultKind(get_result(position)),
                            !.value = get_result(position),
                            !.action = None]
    /\ raised' = IF get_result(position) = NotDone
                 THEN raised \cup {game} ELSE raised
    /\ UNCHANGED <<searchvars, game, position, plies>>

\* The caller leaves the game of Nim and takes up a game of Dvonn.
NewDvonnGame ==
    /\ game = "NimGame"
    /\ game' = "DvonnGame"
    /\ position' \in DvonnStartStates
    /\ plies' = 0
    /\ call' = NoGameCall
    /\ UNCHANGED <<searchvars, raised>>

\* game.do_action(state, a) for the first action a that
\* game.get_legal_actions(state) lists, as long as the caller has chosen no
\* other.
DvonnDoFirstAction ==
    /\ game = "DvonnGame"
    /\ plies = 0
    /\ ~dvonn_is_over(position)
    /\ LET a == dvonn_get_legal_actions(position)[1]
       IN /\ position' = dvonn_do_action(position, a)
          /\ call' = [op |-> "do_action", kind |-> "return", value |-> NotDone,
                      action |-> a, mover |-> position.current_player]
    /\ UNCHANGED <<searchvars, game, plies, raised>>

\* game.do_action(state, a) for an action a of game.get_legal_actions(state)
\* the caller chooses, in the opening and in the positions that leave at most
\* MaxChoices actions.
DvonnDoAction ==
    /\ game = "DvonnGame"
    /\ plies < MaxPlies
    /\ in_opening(position)
       \/ Len(dvonn_get_legal_actions(position)) <= MaxChoices
    /\ \E a \in SeqToSet(dvonn_get_legal_actions(position)) :
          /\ position' = dvonn_do_action(position, a)
          /\ call' = [op |-> "do_action", kind |-> "return", value |-> NotDone,
                      action |-> a, mover |-> position.current_player]
    /\ plies' = plies + 1
    /\ UNCHANGED <<searchvars, game, raised>>

\* game.get_result(state)
DvonnGetResult ==
    /\ game = "DvonnGame"
    /\ call.op # "get_result"
    /\ call' = [call EXCEPT !.op = "get_result",
                            !.kind = ResultKind(dvonn_get_result(position)),
                            !.value = dvonn_get_result(position),
                            !.action = None]
    /\ raised' = IF dvonn_get_result(position) = NotDone
                 THEN raised \cup {game} ELSE raised
    /\ UNCHANGED <<searchvars, game, position, plies>>

InitGames ==
    /\ NoSearch
    /\ game = "NimGame"
    /\ position = new_game
    /\ plies = 0
    /\ call = NoGameCall
    /\ raised = {}

NextGames ==
    \/ NimDoAction
    \/ NimGetResult
    \/ NewDvonnGame
    \/ DvonnDoFirstAction
    \/ DvonnDoAction
    \/ DvonnGetResult

SpecGames == InitGames /\ [][NextGames]_vars

\* ------------------------------------------------------------------------
\* Vocabulary of the properties.
\* ------------------------------------------------------------------------
\* The nodes owned by node n, n included: those reached through children lists.
RECURSIVE Owned(_, _)
Owned(nodes, n) ==
    {n} \cup UNION {Owned(nodes, nodes[n].children[i]) :
                        i \in 1..Len(nodes[n].children)}

\* The children of the root of a tree, and the actions they carry.
RootChildren(nodes) == SeqToSet(nodes[Root].children)
RootActions(nodes) == {nodes[c].action : c \in RootChildren(nodes)}

\* A step of the loop on tree t that ran backup_result.
BackupStep(t) == pc[t] = "simulated" /\ pc'[t] = "idle"

\* The last call was get_best_action on the root of tree t.
BestActionCalled(t) == last.op = "get_best_action" /\ last.self = t

\* A step that ran tree i .combine_root_actions(tree j).
CombineStep(i, j) ==
    /\ last'.op = "combine_root_actions"
    /\ last'.self = i
    /\ last'.other = j
    /\ merges' = merges + 1

\* ------------------------------------------------------------------------
\* C1. In every tree, after any cycles of the search loop with win_loss_ratio
\* and any merges by combine_root_actions, every node has
\* total_games >= won_games >= 0.
\* ------------------------------------------------------------------------
C1_TotalGeWonGeZero ==
    \A t \in Trees : \A n \in 1..Len(tree[t]) :
        /\ tree[t][n].total_games >= tree[t][n].won_games
        /\ tree[t][n].won_games >= 0

\* A merge has summed the counters of an action both trees carried, to more
\* games than wins and at least one win.
C1_Witness ==
    /\ last.op = "combine_root_actions"
    /\ last.kind = "return"
    /\ \E c \in RootChildren(tree[last.self]) :
          /\ tree[last.self][c].total_games >= 2
          /\ tree[last.self][c].won_games >= 1
          /\ tree[last.self][c].won_games < tree[last.self][c].total_games
          /\ tree[last.self][c].action \in RootActions(tree[last.other])

\* ------------------------------------------------------------------------
\* C2. In a two-player alternating game with win_loss_ratio, get_best_action
\* on a parent returns the action of a child whose simulated games were won by
\* the player who moves at the parent at least as often (wins/visits) as those
\* of every other child.
\* ------------------------------------------------------------------------
\* The games backed up through a node that player p won: get_result names one
\* of the two players, and won_games counts the games of the node's own
\* current player.
GamesWonBy(node, p) ==
    IF node.state.current_player = p THEN node.won_games
    ELSE node.total_games - node.won_games

\* wins/visits of player p at a node, as a fraction (0 for a node not visited).
WonRatioOf(node, p) ==
    IF node.total_games = 0 THEN <<0, 1>>
    ELSE <<GamesWonBy(node, p), node.total_games>>

C2_BestActionBestForMover ==
    \A t \in Trees :
        (BestActionCalled(t) /\ last.kind = "return") =>
            LET nodes == tree[t]
                mover == nodes[Root].state.current_player
            IN \E c \in RootChildren(nodes) :
                  /\ nodes[c].action = last.action
                  /\ \A d \in RootChildren(nodes) :
                        ~RatioLess(WonRatioOf(nodes[c], mover),
                                   WonRatioOf(nodes[d], mover))

\* ------------------------------------------------------------------------
\* C3. get_best_action on a node with at least one child returns the action of
\* a child of maximal win ratio, the first such child in the order of the
\* child list, and changes nothing in the tree.
\* ------------------------------------------------------------------------
C3_ReturnsFirstMaximalChild ==
    \A t \in Trees :
        (BestActionCalled(t) /\ tree[t][Root].children # <<>>) =>
            LET nodes == tree[t]
                ids == nodes[Root].children
            IN /\ last.kind = "return"
               /\ \E i \in 1..Len(ids) :
                     /\ last.action = nodes[ids[i]].action
                     /\ \A j \in 1..Len(ids) :
                           ~RatioLess(win_ratio(nodes[ids[i]]),
                                      win_ratio(nodes[ids[j]]))
                     /\ \A j \in 1..(i - 1) :
                           RatioLess(win_ratio(nodes[ids[j]]),
                                     win_ratio(nodes[ids[i]]))

C3_FirstMaximalChildTreeUnchanged ==
    /\ []C3_ReturnsFirstMaximalChild
    /\ [][last'.op = "get_best_action" => tree' = tree]_vars

\* get_best_action returned the first of two children of equal, maximal win
\* ratio, with a child of lower ratio before them.
C3_Witness ==
    /\ BestActionCalled(SearchTree)
    /\ LET nodes == tree[SearchTree]
           ids == nodes[Root].children
       IN /\ Len(ids) >= 3
          /\ \E i, j \in 2..Len(ids) :
                /\ i < j
                /\ last.action = nodes[ids[i]].action
                /\ win_ratio(nodes[ids[i]]) = win_ratio(nodes[ids[j]])
                /\ RatioLess(win_ratio(nodes[ids[1]]), win_ratio(nodes[ids[i]]))

\* ------------------------------------------------------------------------
\* C4. get_best_action on a node with no children fails with the dedicated
\* NoChildrenError and returns no action; a search whose budget ran out
\* before any cycle ends in that error.
\* ------------------------------------------------------------------------
C4_RaisesNoChildrenError ==
    \A t \in Trees :
        (BestActionCalled(t) /\ tree[t][Root].children = <<>>) =>
            last.kind = "NoChildrenError"

\* C4 as amended: get_best_action on a node with no children fails with the
\* ValueError of max() on an empty list and returns no action; a search whose
\* budget ran out before any cycle ends in that ValueError.
C4_RaisesValueError ==
    \A t \in Trees :
        /\ (BestActionCalled(t) /\ tree[t][Root].children = <<>>) =>
               (last.kind = "ValueError" /\ last.action = None)
        /\ (BestActionCalled(t) /\ cycles = 0) => last.kind = "ValueError"

\* A search of a position that is not over left its loop before the first
\* cycle and called get_best_action.
C4_Witness ==
    /\ BestActionCalled(SearchTree)
    /\ cycles = 0
    /\ ~is_over(tree[SearchTree][Root].state)
    /\ last.kind = "ValueError"

\* ------------------------------------------------------------------------
\* C5. One backup_result call with win_loss_ratio adds exactly 1 to
\* total_games of the node it starts at and of each of its ancestors up to and
\* including the root, and leaves won_games and total_games of every other
\* node as they were.
\* ------------------------------------------------------------------------
C5_BackupCountsPathOnce ==
    [][\A t \in Trees :
          BackupStep(t) =>
              /\ Len(tree'[t]) = Len(tree[t])
              /\ selected_node[t] \in Owned(tree[t], Root)
              /\ \A n \in 1..Len(tree[t]) :
                    IF selected_node[t] \in Owned(tree[t], n)
                    THEN tree'[t][n].total_games = tree[t][n].total_games + 1
                    ELSE /\ tree'[t][n].total_games = tree[t][n].total_games
                         /\ tree'[t][n].won_games = tree[t][n].won_games]_vars

\* A backup from a node two levels below the root has run, in a tree that has
\* nodes off its path.
C5_Witness ==
    /\ pc[SearchTree] = "idle"
    /\ LET nodes == tree[SearchTree]
       IN \E n \in 1..Len(nodes) :
             /\ nodes[n].parent # NoParent
             /\ nodes[nodes[n].parent].parent = Root
             /\ nodes[n].total_games = 1
             /\ nodes[Root].total_games = Len(nodes[Root].children) + 1
             /\ Len(nodes[Root].children) >= 2

\* ------------------------------------------------------------------------
\* C6. win_loss_ratio applied to a node with result r adds 1 to won_games if
\* the current player of the node's own state equals r and leaves won_games
\* unchanged otherwise; total_games grows by 1 in both cases.
\* ------------------------------------------------------------------------
C6_WonCountsOwnPlayer ==
    [][\A t \in Trees :
          BackupStep(t) =>
              \A n \in 1..Len(tree[t]) :
                  selected_node[t] \in Owned(tree[t], n) =>
                      /\ tree'[t][n].total_games = tree[t][n].total_games + 1
                      /\ tree'[t][n].won_games =
                             tree[t][n].won_games
                             + (IF tree[t][n].state.current_player = result[t]
                                THEN 1 ELSE 0)]_vars

\* Backups have counted a game as won at one node and as not won at another.
C6_Witness ==
    /\ pc[SearchTree] = "idle"
    /\ \E n, m \in 1..Len(tree[SearchTree]) :
          /\ tree[SearchTree][n].won_games >= 1
          /\ tree[SearchTree][m].total_games >= 1
          /\ tree[SearchTree][m].won_games = 0

\* ------------------------------------------------------------------------
\* C7. After self.combine_root_actions(other), for every action a, the child
\* of self carrying a has won_games equal to the won_games of self's child for
\* a before the merge (0 if none) plus the won_games of other's child for a
\* (0 if none), and likewise for total_games.
\* ------------------------------------------------------------------------
\* <<won_games, total_games>> of the child of the root carrying action a,
\* <<0, 0>> if no child carries it.
StatsOf(nodes, a) ==
    IF a \in RootActions(nodes)
    THEN LET c == CHOOSE c \in RootChildren(nodes) : nodes[c].action = a
         IN <<nodes[c].won_games, nodes[c].total_games>>
    ELSE <<0, 0>>

\* Every root child of after that carries a has the counters of a in self
\* plus those of a in other, and there is such a child.
CarriesSum(after, self, other, a) ==
    /\ a \in RootActions(after)
    /\ \A c \in RootChildren(after) :
          after[c].action = a =>
              /\ after[c].won_games = StatsOf(self, a)[1] + StatsOf(other, a)[1]
              /\ after[c].total_games =
                     StatsOf(self, a)[2] + StatsOf(other, a)[2]

C7_MergeSumsPerAction ==
    [][\A i, j \in Trees :
          CombineStep(i, j) =>
              \A a \in RootActions(tree[i]) \cup RootActions(tree[j]) :
                  CarriesSum(tree'[i], tree[i], tree[j], a)]_vars

\* ------------------------------------------------------------------------
\* C8. After self.combine_root_actions(other), on trees whose children carry
\* pairwise-distinct actions, the actions carried by self's children are
\* exactly the union of the two trees' child actions, each carried by exactly
\* one child of self.
\* ------------------------------------------------------------------------
DistinctActions(nodes) ==
    \A c, d \in RootChildren(nodes) :
        nodes[c].action = nodes[d].action => c = d

C8_MergeCarriesUnionOnce ==
    [][\A i, j \in Trees :
          (/\ CombineStep(i, j)
           /\ DistinctActions(tree[i])
           /\ DistinctActions(tree[j])) =>
              /\ RootActions(tree'[i]) =
                     RootActions(tree[i]) \cup RootActions(tree[j])
              /\ DistinctActions(tree'[i])
              /\ Len(tree'[i][Root].children) =
                     Cardinality(RootChildren(tree'[i]))]_vars

\* ------------------------------------------------------------------------
\* C9. combine_root_actions is commutative and associative on per-action
\* sums: merging trees A, B and C in any pairwise order yields for every
\* action the same final (won_games, total_games), the sum of the action's
\* depth-1 statistics over all the trees.
\* ------------------------------------------------------------------------
\* a.combine_root_actions(b) where b is itself the outcome of a merge, and
\* where a is: an exception raised by the earlier merge leaves no tree to go on.
MergeInto(a, b) ==
    IF b.kind # "return" THEN b
    ELSE combine_root_actions(hashable, a, b.nodes)

MergeOnto(a, b) ==
    IF a.kind # "return" THEN a
    ELSE combine_root_actions(hashable, a.nodes, b)

\* (A.combine(B)).combine(C) and A.combine(B.combine(C)).
LeftFirst(a, b, c) == MergeOnto(combine_root_actions(hashable, a, b), c)
RightFirst(a, b, c) == MergeInto(a, combine_root_actions(hashable, b, c))

\* The outcome of a chain of merges has, for action x, the sum over a, b, c.
HasSumOf(outcome, a, b, c, x) ==
    /\ outcome.kind = "return"
    /\ StatsOf(outcome.nodes, x)[1] =
           StatsOf(a, x)[1] + StatsOf(b, x)[1] + StatsOf(c, x)[1]
    /\ StatsOf(outcome.nodes, x)[2] =
           StatsOf(a, x)[2] + StatsOf(b, x)[2] + StatsOf(c, x)[2]

\* Over the trees as the searches left them (a tree may be merged with a copy
\* of itself or of another, as the tests do with left_copy).
C9_MergeOrderIrrelevant ==
    ((\A t \in Trees : pc[t] = "done") /\ merges = 0) =>
        \A i, j, k \in Trees :
            LET a == tree[i]
                b == tree[j]
                c == tree[k]
            IN \A x \in RootActions(a) \cup RootActions(b) \cup RootActions(c) :
                  /\ HasSumOf(LeftFirst(a, b, c), a, b, c, x)
                  /\ HasSumOf(RightFirst(a, b, c), a, b, c, x)

\* ------------------------------------------------------------------------
\* C10. A child that combine_root_actions adds to self for an action only
\* other's children carry has a state of its own, the result of the action on
\* a clone of self's state (not self's state, nor an alias of it), and the
\* action and the counters of other's child.
\* ------------------------------------------------------------------------
C10_AddedChildHasPlayedState ==
    [][\A i, j \in Trees :
          CombineStep(i, j) =>
              \A n \in (Len(tree[i]) + 1)..Len(tree'[i]) :
                  LET new == tree'[i][n]
                  IN /\ new.state = do_action(tree[i][Root].state, new.action)
                     /\ new.sid # tree[i][Root].sid
                     /\ \E c \in RootChildren(tree[j]) :
                           /\ tree[j][c].action = new.action
                           /\ tree[j][c].won_games = new.won_games
                           /\ tree[j][c].total_games = new.total_games]_vars

\* ------------------------------------------------------------------------
\* C11. combine_root_actions is a depth-1-only merge: it changes only self's
\* child list and the won_games/total_games of self's direct children; self's
\* root counters, every node of self at depth 2 or more and the whole tree
\* other are left unchanged, and the children added from other carry no
\* children of their own.
\* ------------------------------------------------------------------------
\* Node after is node before but for its two counters.
SameButCounters(after, before) ==
    after = [before EXCEPT !.won_games = after.won_games,
                           !.total_games = after.total_games]

C11_MergeIsDepthOneOnly ==
    [][\A i, j \in Trees :
          CombineStep(i, j) =>
              /\ \A t \in Trees \ {i} : tree'[t] = tree[t]
              /\ Len(tree'[i]) >= Len(tree[i])
              /\ tree'[i][Root] =
                     [tree[i][Root] EXCEPT !.children = tree'[i][Root].children]
              /\ \A n \in 2..Len(tree[i]) :
                    IF n \in RootChildren(tree[i])
                    THEN SameButCounters(tree'[i][n], tree[i][n])
                    ELSE tree'[i][n] = tree[i][n]
              /\ \A k \in 1..Len(tree[i][Root].children) :
                    tree'[i][Root].children[k] = tree[i][Root].children[k]
              /\ \A n \in (Len(tree[i]) + 1)..Len(tree'[i]) :
                    /\ n \in RootChildren(tree'[i])
                    /\ tree'[i][n].children = <<>>]_vars

\* A merge returned on a self that has a visited node two levels below its
\* root and a child whose counters the merge raised above those of the root,
\* from an other that has children.
C11_Witness ==
    /\ last.op = "combine_root_actions"
    /\ last.kind = "return"
    /\ tree[last.other][Root].children # <<>>
    /\ LET self == tree[last.self]
       IN /\ \E n \in 1..Len(self) :
                /\ self[n].parent \in RootChildren(self)
                /\ self[n].total_games >= 1
          /\ \E c \in RootChildren(self) :
                self[c].total_games > self[Root].total_games

\* ------------------------------------------------------------------------
\* C12. If any worker of a parallel search fails before delivering its tree,
\* the whole parallel_search fails (WorkerFailure) and returns no action; it
\* never merges only the trees of the surviving workers and returns a best
\* action computed from that partial aggregate.
\* ------------------------------------------------------------------------
\* parallel_search has ended.
ParallelSearchEnded == last.op = "parallel_search"

C12_WorkerFailureFailsSearch ==
    (ParallelSearchEnded /\ \E w \in Workers : pc[w] = "failed") =>
        (last.kind = "WorkerFailure" /\ last.action = None)

\* ------------------------------------------------------------------------
\* C13. From a position with exactly one legal action (Nim with a single item
\* left), a sequential search that completes n cycles returns that one action
\* for every n >= 1, whatever random choices expansion, selection and
\* simulation make.
\* ------------------------------------------------------------------------
\* The legal actions of the position the search of tree t was started from.
RootLegalActions(t) == get_legal_actions(tree[t][Root].state)

C13_SingleActionReturned ==
    Len(RootLegalActions(SearchTree)) = 1 =>
        /\ pc[SearchTree] # "failed"
        /\ (BestActionCalled(SearchTree) /\ cycles >= 1) =>
               /\ last.kind = "return"
               /\ last.action = RootLegalActions(SearchTree)[1]

\* A search of a position with one item left has ended after several cycles
\* and returned an action.
C13_Witness ==
    /\ BestActionCalled(SearchTree)
    /\ Len(RootLegalActions(SearchTree)) = 1
    /\ cycles >= 3
    /\ last.kind = "return"
    /\ last.action = NimAction(1, 1)

\* ------------------------------------------------------------------------
\* C14. For a position with exactly one legal action, parallel_search with 4
\* workers returns the same action as the sequential search, under every
\* interleaving and completion order of the workers (provided the sequential
\* search and at least one worker complete at least one cycle).
\* ------------------------------------------------------------------------
\* Worker w has appended its root after at least one complete cycle.
DeliveredGrown(w) ==
    pc[w] = "delivered" /\ tree[w][Root].total_games >= 1

\* The position parallel_search was called on: every worker that is alive
\* holds it at its root.
ParRootStates ==
    {tree[w][Root].state : w \in {v \in Workers : tree[v] # NoTree}}

\* What the sequential search returns from a position with one legal action
\* after one cycle or more (C13): that action.
C14_ParallelReturnsSequentialAction ==
    (ParallelSearchEnded /\ \E w \in Workers : DeliveredGrown(w)) =>
        \A s \in ParRootStates :
            Len(get_legal_actions(s)) = 1 =>
                /\ last.kind = "return"
                /\ last.action = get_legal_actions(s)[1]

\* ------------------------------------------------------------------------
\* C15. In every tree reachable by any sequence of search cycles and
\* combine_root_actions merges, the children of each node carry
\* pairwise-distinct actions: no action is expanded twice under the same
\* node and no merge introduces a duplicate.
\* ------------------------------------------------------------------------
C15_ChildrenActionsDistinct ==
    \A t \in Trees : \A n \in 1..Len(tree[t]) :
        LET ids == tree[t][n].children
        IN \A i, j \in 1..Len(ids) :
              tree[t][ids[i]].action = tree[t][ids[j]].action => i = j

\* A merge returned on a self that has a child it expanded itself and a child
\* the merge added, from an other that carries both actions.
C15_Witness ==
    /\ last.op = "combine_root_actions"
    /\ last.kind = "return"
    /\ LET self == tree[last.self]
           other == tree[last.other]
       IN \E c, d \in RootChildren(self) :
             /\ self[c].parent = Root
             /\ self[d].parent = NoParent
             /\ {self[c].action, self[d].action} \subseteq RootActions(other)

\* ------------------------------------------------------------------------
\* C16. During parallel search each worker grows a private tree from its own
\* fresh root: under any interleaving of the workers' cycles, no step of one
\* worker changes a node, counter or state of another worker's tree, and the
\* only point at which trees meet is the merge after all workers have
\* reported.
\* ------------------------------------------------------------------------
\* A step of worker w: each statement of _search_job moves its position.
WorkerStep(w) == pc'[w] # pc[w]

\* Every worker process has ended, with its root appended or without.
AllReported == \A w \in Workers : pc[w] \in {"delivered", "failed"}

C16_WorkerTreesPrivate ==
    [][/\ \A w \in Workers :
             WorkerStep(w) =>
                 /\ \A v \in Workers \ {w} :
                       /\ tree'[v] = tree[v]
                       /\ pc'[v] = pc[v]
                       /\ selected_node'[v] = selected_node[v]
                       /\ result'[v] = result[v]
                 /\ last' = NoCall
       /\ (\A w \in Workers : ~WorkerStep(w)) =>
             /\ AllReported
             /\ last'.op = "parallel_search"
             /\ \A v \in Workers :
                   tree'[v] # tree[v] => (root_list # <<>> /\ v = root_list[1])
      ]_vars

\* parallel_search has merged the roots of two workers that had grown
\* different trees: the first one expanded an action the second one did not.
C16_Witness ==
    /\ ParallelSearchEnded
    /\ merges >= 1
    /\ Len(root_list) >= 2
    /\ Len(tree[root_list[2]]) >= 2
    /\ \E c \in RootChildren(tree[root_list[1]]) :
          /\ tree[root_list[1]][c].parent = Root
          /\ tree[root_list[1]][c].action
                 \notin RootActions(tree[root_list[2]])

\* ------------------------------------------------------------------------
\* C17. get_result called on a state whose game is not over fails with an
\* error instead of returning a player index, and leaves the state unchanged;
\* this holds for both the Nim and the Dvonn game.
\* ------------------------------------------------------------------------
\* A step that called get_result on the state of the game played.
GetResultStep == call'.op = "get_result" /\ call.op # "get_result"

\* The game played is not over in its state.
GameNotOver ==
    \/ game = "NimGame" /\ ~is_over(position)
    \/ game = "DvonnGame" /\ ~dvonn_is_over(position)

C17_GetResultRaisesWhenNotOver ==
    [][(GetResultStep /\ GameNotOver) =>
           /\ call'.kind = "Exception"
           /\ call'.value \notin {0, 1}
           /\ position' = position
           /\ game' \in raised']_vars

\* get_result has raised in a game of Nim that was not over and, just now, in
\* a game of Dvonn after an action was done in it.
C17_Witness ==
    /\ game = "DvonnGame"
    /\ plies >= 1
    /\ call.op = "get_result"
    /\ call.kind = "Exception"
    /\ ~dvonn_is_over(position)
    /\ raised = {"NimGame", "DvonnGame"}

\* ------------------------------------------------------------------------
\* C18. NimGame.get_legal_actions(state) returns exactly the actions (heap i,
\* take n) with 1 <= n <= heaps[i] for every heap i: every such action is
\* present, and no action on an empty heap or taking more than the heap holds
\* is present.
\* ------------------------------------------------------------------------
C18_LegalActionsExact ==
    game = "NimGame" =>
        LET actions == get_legal_actions(position)
            heaps == position.heaps
        IN /\ SeqToSet(actions) =
                  {NimAction(i - 1, n) :
                       <<i, n>> \in {p \in (1..Len(heaps))
                                               \X (1..SumSeq(heaps)) :
                                        p[2] <= heaps[p[1]]}}
           /\ \A k \in 1..Len(actions) :
                 /\ actions[k].heap_num \in 0..(Len(heaps) - 1)
                 /\ heaps[actions[k].heap_num + 1] > 0
                 /\ actions[k].num_taken \in 1..heaps[actions[k].heap_num + 1]
           /\ Len(actions) = SumSeq(heaps)

\* A position with an empty heap, a heap of one and a larger heap, reached by
\* legal actions.
C18_Witness ==
    /\ game = "NimGame"
    /\ call.op = "do_action"
    /\ position.heaps[1] = 0
    /\ position.heaps[2] = 1
    /\ position.heaps[3] >= 3

\* ------------------------------------------------------------------------
\* C19. NimGame.do_action with a legal action (heap i, take n) decreases
\* heaps[i] by exactly n, leaves every other heap unchanged, and switches
\* current_player to the other player; so over any sequence of legal actions
\* the players strictly alternate and no heap ever becomes negative.
\* ------------------------------------------------------------------------
\* A step that called do_action on the state of the game of Nim.
NimDoActionStep == game = "NimGame" /\ plies' = plies + 1

C19_DoActionTakesFromOneHeap ==
    [][NimDoActionStep =>
           LET a == call'.action
               i == a.heap_num + 1
           IN /\ a \in SeqToSet(get_legal_actions(position))
              /\ position'.heaps[i] = position.heaps[i] - a.num_taken
              /\ \A j \in (1..Len(position.heaps)) \ {i} :
                    position'.heaps[j] = position.heaps[j]
              /\ Len(position'.heaps) = Len(position.heaps)
              /\ position'.current_player \in {0, 1} \ {position.current_player}
              /\ \A j \in 1..Len(position.heaps) : position'.heaps[j] >= 0
              /\ call'.mover = position.current_player
              /\ plies >= 1 => call.mover # call'.mover]_vars

\* Three legal actions have been done, the last by the player who began, and
\* a heap has been emptied.
C19_Witness ==
    /\ game = "NimGame"
    /\ plies = 3
    /\ call.op = "do_action"
    /\ call.mover = 0
    /\ position.current_player = 1
    /\ \E j \in 1..Len(position.heaps) : position.heaps[j] = 0

\* ------------------------------------------------------------------------
\* C20. A Nim game is over exactly when all heaps are empty, and for any
\* sequence of legal actions that ends in such a state get_result returns the
\* player who took the last item (the player other than current_player of the
\* final state).
\* ------------------------------------------------------------------------
C20_OverWhenEmptyLastTakerWins ==
    game = "NimGame" =>
        /\ is_over(position) <=>
               \A j \in 1..Len(position.heaps) : position.heaps[j] = 0
        /\ (is_over(position) /\ plies >= 1) =>
               /\ get_result(position) = call.mover
               /\ get_result(position) \in {0, 1} \ {position.current_player}
               /\ call.op = "get_result" =>
                     (call.kind = "return" /\ call.value = call.mover)

\* get_result has returned the player who began, who took the last item.
C20_Witness ==
    /\ game = "NimGame"
    /\ is_over(position)
    /\ call.op = "get_result"
    /\ call.kind = "return"
    /\ call.value = 0
    /\ call.mover = 0
    /\ plies >= 3

\* ------------------------------------------------------------------------
\* C21. In a new game of Dvonn the first three PLACE actions put Dvonn rings;
\* every later PLACE action puts one ring of the colour of the player who
\* places, Black first and the players in turn. The cell placed on then holds
\* exactly one ring, no player has a Dvonn ring left from the third placement
\* on, and after k placements of player rings White has 23 - floor(k/2) rings
\* left and Black 23 - ceil(k/2).
\* ------------------------------------------------------------------------
\* A step of do_action on the game of Dvonn; call' then holds the action.
DvonnDoActionStep ==
    game = "DvonnGame" /\ game' = "DvonnGame" /\ position' # position

\* The rings placed on the board of state so far: no ring leaves the board
\* before the movement phase.
NumPlaced(state) ==
    Cardinality(OccupiedAmong(state.board, GridRows \X GridCols))

\* The colour of the rings of player n.
ColourOf(n) == IF n = 0 THEN "WHITE" ELSE "BLACK"

C21_PlacementPhase ==
    [][(DvonnDoActionStep /\ call'.action.type = "PLACE") =>
          LET n == NumPlaced(position)
              k == n - 3
              cell == position'.board.grid[call'.action.end[1]]
                                          [call'.action.end[2]]
              white == position'.players[0]
              black == position'.players[1]
          IN /\ num_rings(cell) = 1
             /\ n < 3 => /\ cell.owner = "RED"
                         /\ cell.num_dvonn_rings = 1
                         /\ white.num_player_rings = 23
                         /\ black.num_player_rings = 23
             /\ n >= 3 =>
                   /\ call'.mover = (IF k % 2 = 0 THEN 1 ELSE 0)
                   /\ cell.owner = ColourOf(call'.mover)
                   /\ cell.num_dvonn_rings = 0
                   /\ white.num_player_rings = 23 - ((k + 1) \div 2)
                   /\ black.num_player_rings = 23 - ((k + 2) \div 2)
             /\ n >= 2 => /\ white.num_dvonn_rings = 0
                          /\ black.num_dvonn_rings = 0]_vars

\* A caller has chosen the cell of the first black ring, the fourth ring on
\* the board.
C21_Witness ==
    /\ game = "DvonnGame"
    /\ plies = 1
    /\ call.op = "do_action"
    /\ call.action.type = "PLACE"
    /\ NumPlaced(position) = 4
    /\ position.board.grid[call.action.end[1]][call.action.end[2]].owner
           = "BLACK"
    /\ position.players[1].num_player_rings = 22

\* ------------------------------------------------------------------------
\* C22. A MOVE action of Dvonn moves the whole stack: afterwards the start
\* cell is EMPTY with no ring of any colour, and, when the stack it made is
\* still joined to a Dvonn ring, the end cell holds the rings of both stacks
\* added colour by colour and is owned by the owner of the stack that moved.
\* ------------------------------------------------------------------------
\* The cell at position p of the board of state.
CellOf(state, p) == state.board.grid[p[1]][p[2]]

\* The occupied cells a chain of adjacent occupied cells joins to position p.
GroupOf(board, p) ==
    IF is_occupied(board.grid[p[1]][p[2]])
    THEN Component(board, {p}, OccupiedNeighbours(board, {p}))
    ELSE {}

\* A chain of adjacent occupied cells joins position p to a Dvonn ring.
JoinedToDvonn(board, p) ==
    \E q \in GroupOf(board, p) : has_dvonn_ring(board.grid[q[1]][q[2]])

\* The board with the stack of start lifted onto the stack of end, as
\* _do_move_action hands it to remove_isolated_rings.
Lifted(board, end, start) ==
    LET from == board.grid[start[1]][start[2]]
    IN [board EXCEPT
           !.grid[end[1]][end[2]].num_white_rings = @ + from.num_white_rings,
           !.grid[end[1]][end[2]].num_black_rings = @ + from.num_black_rings,
           !.grid[end[1]][end[2]].num_dvonn_rings = @ + from.num_dvonn_rings,
           !.grid[end[1]][end[2]].owner = from.owner,
           !.grid[start[1]][start[2]].num_white_rings = 0,
           !.grid[start[1]][start[2]].num_black_rings = 0,
           !.grid[start[1]][start[2]].num_dvonn_rings = 0,
           !.grid[start[1]][start[2]].owner = "EMPTY"]

C22_MoveMovesWholeStack ==
    [][(DvonnDoActionStep /\ call'.action.type = "MOVE") =>
          LET start == call'.action.start
              end == call'.action.end
              from == CellOf(position, start)
              onto == CellOf(position, end)
              left == CellOf(position', start)
              made == CellOf(position', end)
          IN /\ left.owner = "EMPTY"
             /\ left.num_white_rings = 0
             /\ left.num_black_rings = 0
             /\ left.num_dvonn_rings = 0
             /\ JoinedToDvonn(Lifted(position.board, end, start), end) =>
                   /\ made.num_white_rings
                          = from.num_white_rings + onto.num_white_rings
                   /\ made.num_black_rings
                          = from.num_black_rings + onto.num_black_rings
                   /\ made.num_dvonn_rings
                          = from.num_dvonn_rings + onto.num_dvonn_rings
                   /\ made.owner = from.owner
                   /\ made.owner = ColourOf(call'.mover)]_vars

\* A caller has chosen a move that made a stack of three rings or more with
\* rings of both players in it.
C22_Witness ==
    /\ game = "DvonnGame"
    /\ plies = 1
    /\ call.op = "do_action"
    /\ call.action.type = "MOVE"
    /\ CellOf(position, call.action.start).owner = "EMPTY"
    /\ num_rings(CellOf(position, call.action.end)) >= 3
    /\ CellOf(position, call.action.end).num_white_rings > 0
    /\ CellOf(position, call.action.end).num_black_rings > 0
    /\ CellOf(position, call.action.end).owner = ColourOf(call.mover)

\* ------------------------------------------------------------------------
\* C23. After Board.remove_isolated_rings every cell still occupied is joined
\* by a chain of adjacent occupied cells to a cell with a Dvonn ring; every
\* cell of a group that held no Dvonn ring is EMPTY with no white, black or
\* Dvonn ring; and every group that holds a Dvonn ring is as it was.
\* ------------------------------------------------------------------------
\* The occupied positions of the board.
Occupied(board) == OccupiedAmong(board, GridRows \X GridCols)

\* remove_isolated_rings took the board from before to after.
IsolatedRingsRemoved(before, after) ==
    /\ \A p \in Occupied(after) : JoinedToDvonn(after, p)
    /\ \A p \in Occupied(before) :
          IF JoinedToDvonn(before, p)
          THEN after.grid[p[1]][p[2]] = before.grid[p[1]][p[2]]
          ELSE /\ after.grid[p[1]][p[2]].owner = "EMPTY"
               /\ after.grid[p[1]][p[2]].num_white_rings = 0
               /\ after.grid[p[1]][p[2]].num_black_rings = 0
               /\ after.grid[p[1]][p[2]].num_dvonn_rings = 0

C23_IsolatedRingsRemoved ==
    [][(DvonnDoActionStep /\ call'.action.type = "MOVE") =>
          IsolatedRingsRemoved(
              Lifted(position.board, call'.action.end, call'.action.start),
              position'.board)]_vars

\* A caller has chosen a move that cut the stack it made off the Dvonn rings:
\* the stack is gone, its rings are counted as removed, and other rings are
\* left on the board.
C23_Witness ==
    /\ game = "DvonnGame"
    /\ plies = 1
    /\ call.op = "do_action"
    /\ call.action.type = "MOVE"
    /\ CellOf(position, call.action.end).owner = "EMPTY"
    /\ position.board.removed_white_rings
           + position.board.removed_black_rings >= 2
    /\ Occupied(position.board) # {}

\* ------------------------------------------------------------------------
\* C24. The win ratio of a node is won_games / total_games when total_games
\* > 0 and exactly 0 when total_games = 0; reading it never fails, for every
\* node of every reachable tree (roots never visited, new children, children
\* added by a merge).
\* ------------------------------------------------------------------------
\* The fraction r is the number won / total (total > 0).
IsRatio(r, won, total) == r[2] # 0 /\ r[1] * total = won * r[2]

C24_WinRatioDefinedEverywhere ==
    \A t \in DOMAIN tree : \A n \in DOMAIN tree[t] :
        LET node == tree[t][n]
            r == win_ratio(node)
        IN /\ r[2] # 0
           /\ node.total_games = 0 => r[1] = 0
           /\ node.total_games > 0 =>
                 IsRatio(r, node.won_games, node.total_games)

\* A merge has returned on a tree whose root no game was played from: it has
\* given the root a child that several games were played from.
C24_Witness ==
    /\ last.op = "combine_root_actions"
    /\ last.kind = "return"
    /\ tree[last.self][Root].total_games = 0
    /\ \E n \in SeqToSet(tree[last.self][Root].children) :
          /\ tree[last.self][n].total_games >= 2
          /\ tree[last.self][n].won_games >= 1

\* ------------------------------------------------------------------------
\* C25. When select reaches a node whose game is not over and that has fewer
\* children than legal actions, it creates exactly one new child there and
\* returns it: the child's action is a legal action of the node's state that
\* no child carried, its state is that action done on a copy of the node's
\* state, its parent is the node, its counters are 0, and the node's own
\* state is as before.
\* ------------------------------------------------------------------------
\* The step of the loop on tree t that calls select.
SelectStep(t) ==
    pc[t] = "idle" /\ pc'[t] \in {"selected", "failed"} /\ cycles' = cycles + 1

\* Node m of the tree nodes has a game that is not over and fewer children
\* than legal actions.
Expandable(nodes, m) ==
    /\ ~is_over(nodes[m].state)
    /\ Len(nodes[m].children) < Len(get_legal_actions(nodes[m].state))

\* The select of this step has created one child at node m of tree t and
\* returned it.
ExpandedAt(t, m) ==
    LET before == tree[t]
        after == tree'[t]
        new == Len(before) + 1
    IN /\ Len(after) = Len(before) + 1
       /\ pc'[t] = "selected"
       /\ selected_node'[t] = new
       /\ after[new].action \in SeqToSet(get_legal_actions(before[m].state))
       /\ \A i \in 1..Len(before[m].children) :
              before[before[m].children[i]].action # after[new].action
       /\ after[new].state = do_action(before[m].state, after[new].action)
       /\ after[new].sid # before[m].sid
       /\ after[new].parent = m
       /\ after[new].children = <<>>
       /\ after[new].won_games = 0
       /\ after[new].total_games = 0
       /\ after[m] = [before[m] EXCEPT !.children = Append(@, new)]
       /\ \A n \in DOMAIN before : n # m => after[n] = before[n]

C25_SelectExpandsOneChild ==
    [][\A t \in DOMAIN tree : SelectStep(t) =>
          LET reached == select(sel_policy, tree[t], Root)
          IN /\ \A o \in reached :
                   o.kind = "expand" => Expandable(tree[t], o.node)
             /\ Expandable(tree[t], Root) => ExpandedAt(t, Root)
             /\ (\A o \in reached : o.kind = "expand") =>
                   \E o \in reached : ExpandedAt(t, o.node)
             /\ tree'[t] # tree[t] =>
                   \E m \in DOMAIN tree[t] :
                       Expandable(tree[t], m) /\ ExpandedAt(t, m)]_vars

\* select has returned a new child of a node below the root that had a child
\* before.
C25_Witness ==
    /\ pc[SearchTree] = "selected"
    /\ selected_node[SearchTree] = Len(tree[SearchTree])
    /\ LET new == tree[SearchTree][selected_node[SearchTree]]
       IN /\ new.total_games = 0
          /\ new.parent \notin {NoParent, Root}
          /\ Len(tree[SearchTree][new.parent].children) >= 2

\* ------------------------------------------------------------------------
\* C26. In a sequential search with the default backup policy, whenever
\* select hands a node to the selection policy, the node has at least one
\* child, each of its children has total_games >= 1 and the node itself has
\* total_games >= 1: UCT never takes log(0) and never divides by zero.
\* ------------------------------------------------------------------------
\* The nodes the descent of select from node n hands to the policy, over the
\* children the policy can return.
RECURSIVE Delegated(_, _, _)
Delegated(policy, nodes, n) ==
    IF is_over(nodes[n].state) \/ Expandable(nodes, n) THEN {}
    ELSE {n} \cup UNION {Delegated(policy, nodes, o.node) :
                 o \in {c \in ApplySelPolicy(policy, nodes, n) :
                            c.kind = "return"}}

C26_PolicyCalledOnVisitedNodes ==
    [][SelectStep(SearchTree) =>
          /\ \A n \in Delegated(sel_policy, tree[SearchTree], Root) :
                LET node == tree[SearchTree][n]
                IN /\ Len(node.children) >= 1
                   /\ node.total_games >= 1
                   /\ \A i \in 1..Len(node.children) :
                         tree[SearchTree][node.children[i]].total_games >= 1
                   /\ \A o \in ApplySelPolicy(sel_policy, tree[SearchTree], n) :
                         o.kind = "return"
          /\ pc'[SearchTree] = "selected"]_vars

\* UCT has been called on the root and on the child it returned, and select
\* has returned a grandchild of the root that a game was played from before.
C26_Witness ==
    /\ sel_policy = "UCT"
    /\ pc[SearchTree] = "selected"
    /\ LET node == tree[SearchTree][selected_node[SearchTree]]
       IN /\ node.total_games >= 1
          /\ node.parent \notin {NoParent, Root}

\* ------------------------------------------------------------------------
\* C27. select never expands or descends below a node whose game is over:
\* when the descent reaches such a node, the root included, that node is
\* returned and the tree is left as it was, so that a node whose game is
\* over never has children.
\* ------------------------------------------------------------------------
\* No node of the tree whose game is over has a child.
TerminalChildless(nodes) ==
    \A n \in DOMAIN nodes : is_over(nodes[n].state) => nodes[n].children = <<>>

C27_SelectStopsAtTerminal ==
    [][\A t \in DOMAIN tree : SelectStep(t) =>
          LET reached == select(sel_policy, tree[t], Root)
          IN /\ TerminalChildless(tree[t])
             /\ TerminalChildless(tree'[t])
             /\ is_over(tree[t][Root].state) =>
                   /\ pc'[t] = "selected"
                   /\ selected_node'[t] = Root
                   /\ tree'[t] = tree[t]
             /\ \A o \in reached :
                   o.kind = "return" => is_over(tree[t][o.node].state)
             /\ (\A o \in reached : o.kind = "return") =>
                   /\ pc'[t] = "selected"
                   /\ Chosen(selected_node'[t]) \in reached
                   /\ tree'[t] = tree[t]
             /\ (pc'[t] = "selected" /\ tree'[t] = tree[t]) =>
                   is_over(tree[t][selected_node'[t]].state)
             /\ \A n \in DOMAIN tree[t] :
                   is_over(tree[t][n].state) => tree'[t][n] = tree[t][n]]_vars

\* select has returned, for the second time at least, a node below the root
\* whose game is over.
C27_Witness ==
    /\ pc[SearchTree] = "selected"
    /\ selected_node[SearchTree] # Root
    /\ LET node == tree[SearchTree][selected_node[SearchTree]]
       IN /\ is_over(node.state)
          /\ node.children = <<>>
          /\ node.total_games >= 1

\* ------------------------------------------------------------------------
\* C28. In a search children are created by expansion only, one per cycle at
\* most: a cycle of select, simulate_game and backup_result adds one node to
\* the tree, or none when select returned a node whose game is over; after n
\* cycles the tree has at most n nodes besides the root; simulate_game and
\* backup_result add and remove no node.
\* ------------------------------------------------------------------------
\* The nodes of before are nodes of after, with the action, parent, state and
\* children they had.
SameNodes(after, before) ==
    /\ Len(after) = Len(before)
    /\ \A n \in DOMAIN before :
          /\ after[n].action = before[n].action
          /\ after[n].parent = before[n].parent
          /\ after[n].state = before[n].state
          /\ after[n].children = before[n].children

C28_OneChildPerCycle ==
    [][LET before == tree[SearchTree]
           after == tree'[SearchTree]
       IN /\ Len(before) - 1 <= cycles
          /\ Len(after) - 1 <= cycles'
          /\ SameNodes(after, before)
             \/ /\ SelectStep(SearchTree)
                /\ \E m \in DOMAIN before : ExpandedAt(SearchTree, m)
          /\ (SelectStep(SearchTree) /\ pc'[SearchTree] = "selected") =>
                \/ Len(after) = Len(before) + 1
                \/ /\ after = before
                   /\ is_over(before[selected_node'[SearchTree]].state)
          /\ pc[SearchTree] \in {"selected", "simulated"} =>
                SameNodes(after, before)]_vars

\* Three cycles have been run, two of which added no node: select returned
\* the child it had created in the first, whose game is over.
C28_Witness ==
    /\ pc[SearchTree] = "idle"
    /\ cycles = 3
    /\ Len(tree[SearchTree]) = 2
    /\ tree[SearchTree][Root].total_games = 3
    /\ tree[SearchTree][2].total_games = 3

\* ------------------------------------------------------------------------
\* C29. simulate_game plays on a copy: it leaves the state of its node and
\* every node, counter and state of the tree as they were, does only actions
\* that are legal in the copy at the moment they are done, and returns the
\* result of the game for the state the playout ended in; for a node whose
\* game is over that is the result of the node's own state, no action done.
\* ------------------------------------------------------------------------
\* The step of the loop on tree t that calls simulate_game.
SimulateStep(t) == pc[t] = "selected" /\ pc'[t] = "simulated"

\* The state after the actions of seq are done on state, one after the other.
RECURSIVE PlayedOut(_, _)
PlayedOut(state, seq) ==
    IF seq = <<>> THEN state
    ELSE PlayedOut(do_action(state, Head(seq)), Tail(seq))

\* Each action of seq is legal in the state it is done on, and the game is
\* over after the last and not before.
LegalPlayout(state, seq) ==
    /\ \A i \in 1..Len(seq) :
          LET at == PlayedOut(state, SubSeq(seq, 1, i - 1))
          IN /\ ~is_over(at)
             /\ seq[i] \in SeqToSet(get_legal_actions(at))
             /\ \A h \in DOMAIN at.heaps : at.heaps[h] >= 0
    /\ is_over(PlayedOut(state, seq))

C29_SimulatePlaysOnCopy ==
    [][\A t \in DOMAIN tree : SimulateStep(t) =>
          LET state == tree[t][selected_node[t]].state
          IN /\ tree' = tree
             /\ selected_node' = selected_node
             /\ \A seq \in playouts(state) : LegalPlayout(state, seq)
             /\ result'[t] \in
                    {get_result(PlayedOut(state, seq)) : seq \in playouts(state)}
             /\ result'[t] \in {0, 1}
             /\ simulate_game(state) =
                    {get_result(PlayedOut(state, seq)) : seq \in playouts(state)}
             /\ is_over(state) =>
                    /\ playouts(state) = {<<>>}
                    /\ result'[t] = get_result(state)]_vars

\* simulate_game has returned from a node whose game takes two actions or
\* more to end.
C29_Witness ==
    /\ pc[SearchTree] = "simulated"
    /\ result[SearchTree] \in {0, 1}
    /\ SumSeq(tree[SearchTree][selected_node[SearchTree]].state.heaps) >= 2
    /\ tree[SearchTree][selected_node[SearchTree]].total_games = 0

\* ------------------------------------------------------------------------
\* C30. In parallel_search the merge of the workers' trees starts only after
\* every worker that was started has finished: no combine_root_actions and no
\* read of the best action happens while a worker is still in a cycle, and
\* each worker delivers its tree once only, after its last cycle.
\* ------------------------------------------------------------------------
\* Worker w is in its loop or has left it without having appended its root.
Running(w) == pc[w] \in {"idle", "selected", "simulated", "done"}

C30_MergeAfterJoin ==
    [][/\ (merges' # merges \/ last' # NoCall) =>
             /\ \A w \in Workers : ~Running(w)
             /\ pc' = pc
             /\ root_list' = root_list
       /\ ParallelSearchEnded => \A w \in Workers : tree'[w] = tree[w]
       /\ root_list' # root_list =>
             \E w \in Workers :
                 /\ pc[w] = "done"
                 /\ pc'[w] = "delivered"
                 /\ w \notin SeqToSet(root_list)
                 /\ root_list' = Append(root_list, w)
                 /\ tree'[w] = tree[w]
       /\ \A w \in Workers :
             pc[w] = "delivered" =>
                 /\ pc'[w] = "delivered"
                 /\ w \in SeqToSet(root_list)
                 /\ tree'[w] # tree[w] => last'.op = "parallel_search"
      ]_vars

\* parallel_search has merged the roots of its four workers and returned an
\* action; the workers ran two cycles between them.
C30_Witness ==
    /\ ParallelSearchEnded
    /\ last.kind = "return"
    /\ Len(root_list) = num_workers
    /\ merges = num_workers - 1
    /\ cycles = 2
    /\ \A w \in Workers : pc[w] = "delivered"

\* ------------------------------------------------------------------------
\* C31. The sequential search tests its deadline between cycles only: once a
\* cycle has started, its select, simulate_game and backup_result all run
\* before the search can return. Whenever the best action is read, every
\* node but the root has total_games >= 1 and as many backups have run as
\* selects.
\* ------------------------------------------------------------------------
\* The backups run on tree t: each adds 1 to total_games of the root.
Backups(t) == tree[t][Root].total_games

\* Every cycle started on tree t has run to its end.
CyclesComplete(t) ==
    /\ Backups(t) = cycles
    /\ \A n \in DOMAIN tree[t] : n # Root => tree[t][n].total_games >= 1

C31_DeadlineBetweenCycles ==
    [][/\ (pc'[SearchTree] = "done" /\ pc[SearchTree] # "done") =>
             (pc[SearchTree] = "idle" /\ CyclesComplete(SearchTree))
       /\ pc[SearchTree] \in {"selected", "simulated"} =>
             (pc'[SearchTree] # "done" /\ last' = NoCall)
       /\ last'.op = "get_best_action" =>
             (pc[SearchTree] = "done" /\ CyclesComplete(SearchTree))]_vars

\* The best action has been read after three cycles that grew the tree.
C31_Witness ==
    /\ BestActionCalled(SearchTree)
    /\ last.kind = "return"
    /\ cycles = 3
    /\ Len(tree[SearchTree]) = 4
    /\ CyclesComplete(SearchTree)

\* ------------------------------------------------------------------------
\* C32. At every cycle boundary of a sequential search with the default
\* backup policy, each node whose game is not over has total_games equal to
\* the sum of total_games of its children, and total_games of the root is the
\* number of cycles completed.
\* ------------------------------------------------------------------------
\* The sum of total_games over the nodes ids.
RECURSIVE TotalGames(_, _)
TotalGames(nodes, ids) ==
    IF ids = <<>> THEN 0
    ELSE nodes[Head(ids)].total_games + TotalGames(nodes, Tail(ids))

\* The loop on tree t stands between two cycles, or has been left.
CycleBoundary(t) == pc[t] \in {"idle", "done"}

C32_VisitsPassedToChildren ==
    CycleBoundary(SearchTree) =>
        /\ tree[SearchTree][Root].total_games = cycles
        /\ \A n \in DOMAIN tree[SearchTree] :
              ~is_over(tree[SearchTree][n].state) =>
                  tree[SearchTree][n].total_games
                      = TotalGames(tree[SearchTree],
                                   tree[SearchTree][n].children)

\* As amended: the game simulated from a node in the cycle that created it is
\* counted on the node and on no child of it, so that a node below the root
\* has one game more than its children together; the root, never simulated
\* from unless its game is over, has as many as its children.
C32_VisitsPassedToChildrenButFirst ==
    CycleBoundary(SearchTree) =>
        /\ tree[SearchTree][Root].total_games = cycles
        /\ \A n \in DOMAIN tree[SearchTree] :
              ~is_over(tree[SearchTree][n].state) =>
                  tree[SearchTree][n].total_games
                      = (IF n = Root THEN 0 ELSE 1)
                        + TotalGames(tree[SearchTree],
                                     tree[SearchTree][n].children)

\* Between two cycles a node below the root whose game is not over has
\* children that games were played from.
C32_Witness ==
    /\ pc[SearchTree] = "idle"
    /\ \E n \in DOMAIN tree[SearchTree] :
          /\ n # Root
          /\ ~is_over(tree[SearchTree][n].state)
          /\ tree[SearchTree][n].children # <<>>
          /\ tree[SearchTree][n].total_games >= 2

\* ------------------------------------------------------------------------
\* C33. Given the same set of completed worker trees, parallel_search ends
\* the same way and with the same action whatever the order in which the
\* workers appended their roots to root_list.
\* ------------------------------------------------------------------------
\* The orders in which the roots of the sequence roots can stand in a list.
Orders(roots) ==
    LET n == Len(roots)
        Rearranged == {f \in [1..n -> 1..n] :
                          \A i, j \in 1..n : i # j => f[i] # f[j]}
    IN {[k \in 1..n |-> roots[f[k]]] : f \in Rearranged}

\* The caller of parallel_search merges root_list and reads the action.
MergeRootListStep ==
    last.op # "parallel_search" /\ last'.op = "parallel_search"

C33_AppendOrderIrrelevant ==
    [][MergeRootListStep =>
          \A order \in Orders(root_list) :
              LET r == collect_roots(hashable,
                           [k \in 1..Len(order) |-> tree[order[k]]])
              IN r.kind = last'.kind /\ r.action = last'.action]_vars

\* ------------------------------------------------------------------------
\* C34. No search, sequential or parallel, the final merge included, changes
\* the state object supplied by the caller: the root holds that very object,
\* and every step leaves it with the position and the current player it had.
\* ------------------------------------------------------------------------
\* The nodes of a tree that hold the caller's state object.
HoldersOfCallerState(nodes) ==
    {n \in DOMAIN nodes : nodes[n].sid = CallerState}

C34_CallerStateUnchanged ==
    [][\A t \in DOMAIN tree :
          (tree[t] # NoTree /\ tree'[t] # NoTree) =>
              /\ Root \in HoldersOfCallerState(tree[t])
              /\ Root \in HoldersOfCallerState(tree'[t])
              /\ \A n \in HoldersOfCallerState(tree'[t]) :
                    tree'[t][n].state = tree[t][Root].state]_vars

\* parallel_search has returned an action from a tree whose root was
\* expanded by its worker and whose merge added a child holding the
\* caller's object.
C34_Witness ==
    /\ ParallelSearchEnded /\ last.kind = "return"
    /\ ~is_over(tree[last.self][Root].state)
    /\ \E n, m \in DOMAIN tree[last.self] :
          /\ n # Root /\ n \in HoldersOfCallerState(tree[last.self])
          /\ tree[last.self][n].state = tree[last.self][Root].state
          /\ tree[last.self][m].parent = Root
          /\ m \notin HoldersOfCallerState(tree[last.self])

\* ------------------------------------------------------------------------
\* C35. In every tree reachable by search cycles and merges the parent
\* back-references agree with ownership: the root has no parent and no
\* action, every child c in the child list of a node n has parent n and an
\* action that is not None, and the parent links lead from every node to the
\* root.
\* ------------------------------------------------------------------------
\* Where the parent links lead from node n in at most k steps: the node
\* without a parent they end in, or NoParent when they have not ended.
RECURSIVE TopOf(_, _, _)
TopOf(nodes, n, k) ==
    IF nodes[n].parent = NoParent THEN n
    ELSE IF k = 0 THEN NoParent
    ELSE TopOf(nodes, nodes[n].parent, k - 1)

C35_ParentsAgreeWithOwnership ==
    \A t \in DOMAIN tree :
        LET nodes == tree[t]
        IN /\ nodes[Root].parent = NoParent
           /\ nodes[Root].action = None
           /\ \A n \in DOMAIN nodes :
                 /\ \A k \in DOMAIN nodes[n].children :
                       /\ nodes[nodes[n].children[k]].parent = n
                       /\ nodes[nodes[n].children[k]].action # None
                 /\ TopOf(nodes, n, Len(nodes)) = Root

\* ------------------------------------------------------------------------
\* C36. No search cycle on Nim calls get_result on a state whose game is not
\* over, and none asks the simulation policy to choose from an empty list of
\* actions: simulate_game calls get_result once is_over holds of its copy,
\* and the error of get_result never arises inside a search.
\* ------------------------------------------------------------------------
\* The states the loop of simulate_game calls the simulation policy on while
\* it does the actions of seq from state.
PolicyCalledOn(state, seq) ==
    {PlayedOut(state, SubSeq(seq, 1, i - 1)) : i \in 1..Len(seq)}

C36_NoResultBeforeEnd ==
    [][\A t \in DOMAIN tree : SimulateStep(t) =>
          LET state == tree[t][selected_node[t]].state
          IN /\ \A seq \in playouts(state) :
                   /\ is_over(PlayedOut(state, seq))
                   /\ get_result(PlayedOut(state, seq)) # NotDone
                   /\ \A at \in PolicyCalledOn(state, seq) :
                         /\ get_legal_actions(at) # <<>>
                         /\ random_action(at) # {}
             /\ NotDone \notin simulate_game(state)
             /\ result'[t] # NotDone
             /\ pc'[t] # "failed"]_vars

\* simulate_game has returned from a node two actions away from the end of
\* the game, where the policy was called twice.
C36_Witness ==
    /\ pc[SearchTree] = "simulated"
    /\ result[SearchTree] # NotDone
    /\ LET state == tree[SearchTree][selected_node[SearchTree]].state
       IN /\ state.heaps = <<1, 1>>
          /\ \A seq \in playouts(state) : Len(seq) = 2

\* ------------------------------------------------------------------------
\* C37. Every search cycle on Nim ends: each legal action makes the sum of
\* the heaps strictly smaller, so select goes through at most (heap sum of
\* the root + 1) nodes, the playout of simulate_game does at most (heap sum
\* of its node) actions before the game is over, and backup_result ends at
\* the root.
\* ------------------------------------------------------------------------
\* The nodes on the parent links from node n up to the node without a
\* parent, both counted, followed for k links at most.
RECURSIVE PathLen(_, _, _)
PathLen(nodes, n, k) ==
    IF nodes[n].parent = NoParent \/ k = 0 THEN 1
    ELSE 1 + PathLen(nodes, nodes[n].parent, k - 1)

\* Every action legal in state leaves a smaller heap sum, not below 0.
ActionsDecreaseSum(state) ==
    \A a \in SeqToSet(get_legal_actions(state)) :
        /\ SumSeq(do_action(state, a).heaps) < SumSeq(state.heaps)
        /\ SumSeq(do_action(state, a).heaps) >= 0

C37_CycleEndsOnNim ==
    [][\A t \in DOMAIN tree :
          /\ (pc[t] = "idle" /\ pc'[t] = "selected") =>
                /\ \A n \in DOMAIN tree'[t] :
                      ActionsDecreaseSum(tree'[t][n].state)
                /\ PathLen(tree'[t], selected_node'[t], Len(tree'[t]))
                       <= SumSeq(tree[t][Root].state.heaps) + 1
                /\ TopOf(tree'[t], selected_node'[t], Len(tree'[t])) = Root
          /\ SimulateStep(t) =>
                LET state == tree[t][selected_node[t]].state
                IN /\ playouts(state) # {}
                   /\ \A seq \in playouts(state) :
                         /\ Len(seq) <= SumSeq(state.heaps)
                         /\ is_over(PlayedOut(state, seq))
          /\ BackupStep(t) =>
                /\ TopOf(tree[t], selected_node[t], Len(tree[t])) = Root
                /\ PathLen(tree[t], selected_node[t], Len(tree[t]))
                       <= SumSeq(tree[t][Root].state.heaps) + 1
                /\ pc'[t] = "idle"]_vars

\* simulate_game has returned in a cycle whose select went through heap sum
\* + 1 nodes, down to a node whose game is over.
C37_Witness ==
    /\ pc[SearchTree] = "simulated"
    /\ cycles >= 3
    /\ selected_node[SearchTree] \in DOMAIN tree[SearchTree]
    /\ SumSeq(tree[SearchTree][Root].state.heaps) = 3
    /\ PathLen(tree[SearchTree], selected_node[SearchTree],
               Len(tree[SearchTree])) = 4
    /\ is_over(tree[SearchTree][selected_node[SearchTree]].state)

\* ------------------------------------------------------------------------
\* C38. Rings are conserved in Dvonn: in every state reached from a new game
\* by legal actions, the white rings on the board, the white rings removed
\* and the rings White has not placed are 23 together, likewise for Black,
\* and the Dvonn rings on the board and those not placed are 3 together: no
\* action makes or loses a ring, and no Dvonn ring is removed.
\* ------------------------------------------------------------------------
\* The rings of one kind ("num_white_rings", "num_black_rings" or
\* "num_dvonn_rings") on the cells of the board of state.
RingsOnBoard(state, kind) ==
    SumOver([p \in GridRows \X GridCols |-> CellOf(state, p)[kind]],
            GridRows \X GridCols)

\* The Dvonn rings of the game: those the two players start with.
NumDvonnRings ==
    Player(0).num_dvonn_rings + Player(1).num_dvonn_rings

C38_RingsConserved ==
    game = "DvonnGame" =>
        /\ RingsOnBoard(position, "num_white_rings")
              + position.board.removed_white_rings
              + position.players[0].num_player_rings = StartPlayerRings
        /\ RingsOnBoard(position, "num_black_rings")
              + position.board.removed_black_rings
              + position.players[1].num_player_rings = StartPlayerRings
        /\ RingsOnBoard(position, "num_dvonn_rings")
              + position.players[0].num_dvonn_rings
              + position.players[1].num_dvonn_rings = NumDvonnRings
        /\ position.players[1].num_dvonn_rings >= 0
        /\ position.players[0].num_dvonn_rings >= 0

\* Rings of both colours have been removed in the movement phase, and rings
\* of both colours are left on the board under the three Dvonn rings.
C38_Witness ==
    /\ game = "DvonnGame"
    /\ position.board.removed_white_rings >= 1
    /\ position.board.removed_black_rings >= 1
    /\ position.players[0].num_player_rings = 0
    /\ position.players[1].num_player_rings = 0
    /\ RingsOnBoard(position, "num_white_rings") >= 1
    /\ RingsOnBoard(position, "num_black_rings") >= 1
    /\ RingsOnBoard(position, "num_dvonn_rings") = NumDvonnRings

====
